---- MODULE Spec2Model ----
(***************************************************************************)
(* Ingestion pipeline and notification engine of the outpatient queue      *)
(* tracker: the session-aware snapshot row builder, the snapshot writer,   *)
(* the scan jobs, the per-department detail-fetch semaphore, the job       *)
(* scheduler and the threshold notification state machine.                 *)
(*                                                                         *)
(* The components share no state except the snapshot and subscription      *)
(* tables, so each is explored by a specification of its own               *)
(* (SpecGate, SpecStore, SpecSem, SpecJobs, SpecNotify); the variables of  *)
(* the components a specification does not run stay at their Off value.    *)
(***************************************************************************)
EXTENDS Integers, Sequences, FiniteSets, TLC

VARIABLES
    call,        \* SpecGate: the last _build_snapshot_row call, inputs and result
    store,       \* appointment_snapshots: sequence of stored rows
    now,         \* SpecStore: wall clock, minutes since 00:00 of day 0
    tzAware,     \* SpecStore: whether the clock values carry a timezone
    pending,     \* SpecStore: rows each scan job has built and not yet written
    written,     \* SpecStore: conflict keys some write has carried so far
    sem,         \* SpecSem: value of the asyncio.Semaphore of fetch_schedule
    docPc,       \* SpecSem: position of each fetch_one task
    fetched,     \* SpecSem: number of department fetches completed
    cronRun,     \* SpecJobs: runs started by the scheduler, per job id
    manualRun,   \* SpecJobs: runs started by the admin trigger hooks, per job
    skipped,     \* SpecJobs: cron ticks skipped by max_instances, per job id
    subs,        \* tracking_subscriptions: per subscription, the notified flags
    cfg,         \* SpecNotify: what the users set per subscription, the transports
    cyc,         \* SpecNotify: per check_and_notify run, its local state
    dispatched,  \* SpecNotify: alert dispatches so far, per subscription/threshold
    logs,        \* notification_logs: the set of log entries
    wk,          \* SpecScan: per hospital, the state of its worker in the cycle
    run,         \* SpecScan: the scan cycle that gathers the workers
    wr,          \* SpecBatch: one call of batch_insert_snapshots and its caller
    calc,        \* SpecRemaining, SpecEta: the arguments and result of a call
    req          \* SpecHttp: one adapter operation and its HTTP request

gateVars   == <<call>>
storeVars  == <<store, now, tzAware, pending, written>>
semVars    == <<sem, docPc, fetched>>
jobVars    == <<cronRun, manualRun, skipped>>
notifyVars == <<subs, cfg, cyc, dispatched, logs>>
scanVars   == <<wk, run>>
batchVars  == <<wr>>
calcVars   == <<calc>>
httpVars   == <<req>>
vars       == <<call, store, now, tzAware, pending, written, sem, docPc,
                fetched, cronRun, manualRun, skipped, subs, cfg, cyc,
                dispatched, logs, wk, run, wr, calc, req>>

(***************************************************************************)
(* Python values.  None is modelled by -1 where an int is expected (ticket *)
(* numbers and headcounts are never negative), by NoneList where a list is *)
(* expected, and by "" for a missing clinic room (None and "" are both     *)
(* falsy and both stored as "").                                           *)
(***************************************************************************)
None == 0 - 1
NoneList == << None >>
NoneDetails == << [number |-> None, status |-> "None"] >>

Max(a, b) == IF a >= b THEN a ELSE b

\* Python truthiness of an Optional[int]: None and 0 are falsy.
Truthy(x) == x # None /\ x # 0

(***************************************************************************)
(* Clock.  A datetime is [min, aware]: minutes since 00:00 of day 0 and    *)
(* whether it carries tzinfo.  now_tw() is datetime.now(TAIWAN_TZ), an     *)
(* aware datetime; the repository's tests replace it by naive values.      *)
(***************************************************************************)
MinutesPerDay == 24 * 60

now_tw(minute, aware) == [min |-> minute, aware |-> aware]

today_tw(dt) == dt.min \div MinutesPerDay

\* datetime.combine(date, time): a naive datetime.
combine(day, minuteOfDay) == [min |-> day * MinutesPerDay + minuteOfDay, aware |-> FALSE]

\* Ordering two datetimes raises TypeError when exactly one of them is aware.
CompareRaises(a, b) == a.aware # b.aware

SessionTypes == {"AM", "PM", "EVE"}     \* "上午", "下午", "晚上"

\* session_start_times of _build_snapshot_row: 08:00, 13:30, 18:00.
session_start_times(t) ==
    CASE t = "AM"  -> 8 * 60
      [] t = "PM"  -> 13 * 60 + 30
      [] t = "EVE" -> 18 * 60

\* timedelta(hours=8)
WindowMinutes == 8 * 60

(***************************************************************************)
(* Records of the adapter contract (scrapers/base.py).  A DoctorSlot is    *)
(* [doctor_no, session_date, session_type, total_quota, registered,        *)
(* clinic_room, current_number, is_full, status]; a ClinicProgress is      *)
(* [current_number, total_quota, registered_count, status, waiting_list,   *)
(* clinic_queue_details].  A status of "" is None.                         *)
(***************************************************************************)
DoctorSlot(doctor_no, session_date, session_type, total_quota, registered, clinic_room, is_full, status) ==
    [doctor_no |-> doctor_no, session_date |-> session_date,
     session_type |-> session_type, total_quota |-> total_quota,
     registered |-> registered, clinic_room |-> clinic_room,
     current_number |-> None, is_full |-> is_full, status |-> status]

\* The conflict key of batch_insert_snapshots' on_conflict.
ConflictKey(doctor_id, dept_id, slot) ==
    [doctor_id |-> doctor_id, department_id |-> dept_id,
     session_date |-> slot.session_date, session_type |-> slot.session_type,
     clinic_room |-> slot.clinic_room]

\* A row payload: the keys of the dict are key, current_registered, is_full,
\* status and those of the optional keys listed in has.
Payload(key, registered, is_full, status, has, cur, quota, wl, details) ==
    [key |-> key, current_registered |-> registered, is_full |-> is_full,
     status |-> status, has |-> has, current_number |-> cur,
     total_quota |-> quota, waiting_list |-> wl,
     clinic_queue_details |-> details]

\* What _build_snapshot_row returns when it returns None.
NullRow == Payload([doctor_id |-> "", department_id |-> "", session_date |-> None,
                    session_type |-> "", clinic_room |-> ""],
                   None, FALSE, "", {}, None, None, <<>>, <<>>)

(***************************************************************************)
(* _build_snapshot_row (scheduler.py).  nowdt is the value of now_tw();    *)
(* fetch is what scraper.fetch_clinic_progress does if it is called:       *)
(* [kind |-> "raise"], [kind |-> "none"] or [kind |-> "progress", p |-> p].*)
(* The result is [returned, row, fetched]: whether a row (not None) is     *)
(* returned, the row, and whether the live fetch was attempted.            *)
(***************************************************************************)
\* Lines 412-419: the comparison of now with the session window.
WindowCheck(slot, nowdt) ==
    LET session_start_dt == combine(slot.session_date,
                                    session_start_times(slot.session_type))
        session_end_min == session_start_dt.min + WindowMinutes
    IN  [raises |-> CompareRaises(nowdt, session_start_dt),
         inside |-> nowdt.min >= session_start_dt.min /\ nowdt.min < session_end_min]

\* A gate that also opens for sessions dated after today.
is_today_or_later(slot, nowdt) == slot.session_date >= today_tw(nowdt)

\* Line 400: is_today = slot.session_date == today_tw()
is_today(slot, nowdt) == slot.session_date = today_tw(nowdt)

\* A faulty variant: the progress's value is taken although it is None.
progress_value(pv, sv) == pv

\* Lines 432-435: if progress.registered_count: ..., if progress.total_quota:
progress_or_slot(pv, sv) == IF Truthy(pv) THEN pv ELSE sv

\* A faulty variant: the four keys are written whatever their value.
row_keys_always(cur, quota, wl, details) ==
    {"current_number", "total_quota", "waiting_list", "clinic_queue_details"}

\* Lines 458-466: the optional keys of the row.
row_keys(cur, quota, wl, details) ==
    (IF cur # None THEN {"current_number"} ELSE {})
    \cup (IF quota # None THEN {"total_quota"} ELSE {})
    \cup (IF wl # <<>> THEN {"waiting_list"} ELSE {})
    \cup (IF details # <<>> THEN {"clinic_queue_details"} ELSE {})

build_snapshot_row(slot, doctor_id, dept_id, needs_progress, nowdt, fetch) ==
    LET gated == is_today(slot, nowdt) /\ needs_progress /\ slot.session_type \in SessionTypes
        raises == gated /\ WindowCheck(slot, nowdt).raises
        should_fetch_realtime == gated /\ WindowCheck(slot, nowdt).inside
        doFetch == should_fetch_realtime /\ slot.clinic_room # ""
        got == doFetch /\ fetch.kind = "progress"
        p == fetch.p
        current_number == IF got THEN p.current_number ELSE slot.current_number
        registered_count == IF got
                            THEN progress_or_slot(p.registered_count,
                                                  slot.registered)
                            ELSE slot.registered
        total_quota == IF got
                       THEN progress_or_slot(p.total_quota, slot.total_quota)
                       ELSE slot.total_quota
        status == IF got /\ p.status # "" THEN p.status ELSE slot.status
        waiting_list == IF got THEN p.waiting_list ELSE <<>>
        clinic_queue_details == IF got THEN p.clinic_queue_details ELSE <<>>
        has == row_keys(current_number, total_quota, waiting_list,
                        clinic_queue_details)
    IN  IF raises
        THEN [returned |-> FALSE, row |-> NullRow, fetched |-> FALSE]
        ELSE [returned |-> TRUE,
              row |-> Payload(ConflictKey(doctor_id, dept_id, slot),
                              registered_count, slot.is_full, status, has,
                              current_number, total_quota, waiting_list,
                              clinic_queue_details),
              fetched |-> doFetch]

\* The row the off-peak full scan appends (scheduler.py 181-193): total_quota
\* and current_number are keys of the dict whatever their value.
master_data_row(slot, doctor_id, dept_id) ==
    Payload(ConflictKey(doctor_id, dept_id, slot), slot.registered, slot.is_full,
            slot.status, {"total_quota", "current_number"}, None,
            slot.total_quota, <<>>, <<>>)

(***************************************************************************)
(* Snapshot writer (data_writer.py).  The table is a sequence of rows; an  *)
(* upsert on the conflict key writes the columns the payload carries and   *)
(* leaves the others as stored (NULL in a new row).                        *)
(***************************************************************************)
NullStored(key) ==
    [key |-> key, current_registered |-> None, is_full |-> FALSE, status |-> "",
     current_number |-> None, total_quota |-> None, waiting_list |-> NoneList,
     clinic_queue_details |-> NoneDetails]

Merge(old, r) ==
    [key |-> old.key, current_registered |-> r.current_registered,
     is_full |-> r.is_full, status |-> r.status,
     current_number |-> IF "current_number" \in r.has
                        THEN r.current_number ELSE old.current_number,
     total_quota |-> IF "total_quota" \in r.has
                     THEN r.total_quota ELSE old.total_quota,
     waiting_list |-> IF "waiting_list" \in r.has
                      THEN r.waiting_list ELSE old.waiting_list,
     clinic_queue_details |-> IF "clinic_queue_details" \in r.has
                              THEN r.clinic_queue_details
                              ELSE old.clinic_queue_details]

\* insert_snapshot's plain insert, in place of the upsert.
insert_row(table, r) == Append(table, Merge(NullStored(r.key), r))

upsert_row(table, r) ==
    IF \E i \in 1..Len(table) : table[i].key = r.key
    THEN [i \in 1..Len(table) |->
            IF table[i].key = r.key THEN Merge(table[i], r) ELSE table[i]]
    ELSE Append(table, Merge(NullStored(r.key), r))

RECURSIVE upsert_chunk(_, _)
upsert_chunk(table, chunk) ==
    IF chunk = <<>> THEN table
    ELSE upsert_chunk(upsert_row(table, Head(chunk)), Tail(chunk))

chunk_size == 500

RECURSIVE batch_from(_, _, _)
batch_from(table, rows, i) ==
    IF i > Len(rows) THEN table
    ELSE LET last == IF i + chunk_size - 1 < Len(rows)
                     THEN i + chunk_size - 1 ELSE Len(rows)
         IN  batch_from(upsert_chunk(table, SubSeq(rows, i, last)), rows,
                        i + chunk_size)

batch_insert_snapshots(table, rows) == batch_from(table, rows, 1)

(***************************************************************************)
(* Inputs of the models.                                                   *)
(***************************************************************************)
\* ClinicProgress as the CMUH adapter returns it: the current number only.
ProgressCMUH ==
    [current_number |-> 25, total_quota |-> None, registered_count |-> None,
     status |-> "", waiting_list |-> <<>>, clinic_queue_details |-> <<>>]

\* ClinicProgress as the HMMH adapter returns it: parsed off the ticket table.
ProgressHMMH ==
    [current_number |-> 26, total_quota |-> 28, registered_count |-> 3,
     status |-> "", waiting_list |-> <<27, 28>>,
     clinic_queue_details |-> << [number |-> 26, status |-> "inprogress"],
                                 [number |-> 27, status |-> "waiting"],
                                 [number |-> 28, status |-> "waiting"] >>]

FetchOutcomes ==
    { [kind |-> "raise", p |-> ProgressCMUH], [kind |-> "none", p |-> ProgressCMUH],
      [kind |-> "progress", p |-> ProgressCMUH],
      [kind |-> "progress", p |-> ProgressHMMH] }

(***************************************************************************)
(* SpecGate: _build_snapshot_row applied to every slot, clock and fetch    *)
(* outcome of a bounded grid.                                              *)
(***************************************************************************)
MaxHalfHour == 60      \* the clock grid: 00:00 of day 0 .. 06:00 of day 1

GateMinutes == { 30 * k : k \in 0..MaxHalfHour }

GateSlots ==
    { DoctorSlot("D1", d, t, q, r, room, FALSE, "") :
        d \in {0, 1}, t \in SessionTypes \cup {"other"}, q \in {None, 50},
        r \in {None, 40}, room \in {"101", ""} }

NoCall ==
    [made |-> FALSE, slot |-> DoctorSlot("", None, "", None, None, "", FALSE, ""),
     needs_progress |-> FALSE, nowdt |-> now_tw(0, FALSE),
     fetch |-> [kind |-> "none", p |-> ProgressCMUH],
     res |-> [returned |-> FALSE, row |-> NullRow, fetched |-> FALSE]]

GateInit == call = NoCall
GateOff  == call = NoCall

BuildRow ==
    /\ ~call.made
    /\ \E slot \in GateSlots, needs \in BOOLEAN, m \in GateMinutes,
          aware \in BOOLEAN, f \in FetchOutcomes :
         call' = [made |-> TRUE, slot |-> slot, needs_progress |-> needs,
                  nowdt |-> now_tw(m, aware), fetch |-> f,
                  res |-> build_snapshot_row(slot, "doc1", "dep1", needs,
                                             now_tw(m, aware), f)]
    /\ UNCHANGED <<storeVars, semVars, jobVars, notifyVars, scanVars, batchVars, calcVars, httpVars>>

BuildRowReturn ==
    /\ call.made
    /\ call' = NoCall
    /\ UNCHANGED <<storeVars, semVars, jobVars, notifyVars, scanVars, batchVars, calcVars, httpVars>>

(***************************************************************************)
(* SpecStore: the three scan jobs writing the snapshot table.  A job is    *)
(* two steps, building its rows (schedule fetch, row builder) and writing  *)
(* them (batch_insert_snapshots), so that the writes of different jobs     *)
(* interleave in every order.  The full scan and the tracked scan start at *)
(* any time (cron window or admin trigger), the morning sync at 08:00.     *)
(***************************************************************************)
MaxBatch == 2          \* slots one schedule fetch returns

JobKinds == {"full", "tracked", "sync"}

\* 07:30, 08:00 and 09:00 of day 0.
ClockInstants == << 7 * 60 + 30, 8 * 60, 9 * 60 >>

\* Slots as CMUHScraper._fetch_doctor_slots builds them: no quota.
StoreSlots ==
    { DoctorSlot("D1", d, "AM", None, r, "101", FALSE, "") :
        d \in {0, 1}, r \in {40, 41} }

\* Schedules: up to MaxBatch slots of one doctor, in date order.
Schedules ==
    { sq \in UNION { [1..n -> StoreSlots] : n \in 1..MaxBatch } :
        \A i, j \in 1..Len(sq) :
            i < j => sq[i].session_date < sq[j].session_date }

\* What the progress fetch of a scan returns.
StoreOutcomes == { f \in FetchOutcomes : f.kind # "raise" }

Idle == [active |-> FALSE, rows |-> <<>>]

StoreInit ==
    /\ store = <<>>
    /\ now = ClockInstants[1]
    /\ tzAware \in BOOLEAN
    /\ pending = [j \in JobKinds |-> Idle]
    /\ written = {}

StoreOff ==
    /\ store = <<>>
    /\ now = 0
    /\ tzAware = TRUE
    /\ pending = [j \in JobKinds |-> Idle]
    /\ written = {}

RECURSIVE SeqToKeys(_)
SeqToKeys(rows) ==
    IF rows = <<>> THEN {} ELSE {Head(rows).key} \cup SeqToKeys(Tail(rows))

\* The rows of results that are not None, in order.
RECURSIVE ReturnedRows(_)
ReturnedRows(results) ==
    IF results = <<>> THEN <<>>
    ELSE IF Head(results).returned
         THEN <<Head(results).row>> \o ReturnedRows(Tail(results))
         ELSE ReturnedRows(Tail(results))

Tick ==
    /\ \E i \in 1..(Len(ClockInstants) - 1) :
         now = ClockInstants[i] /\ now' = ClockInstants[i + 1]
    /\ UNCHANGED <<store, tzAware, pending, written>>
    /\ UNCHANGED <<gateVars, semVars, jobVars, notifyVars, scanVars, batchVars, calcVars, httpVars>>

\* _scrape_hospital_master_data, up to the batch insert.
FullScanBuild ==
    /\ ~pending["full"].active
    /\ \E sq \in Schedules :
         pending' = [pending EXCEPT !["full"] =
            [active |-> TRUE,
             rows |-> [i \in 1..Len(sq) |-> master_data_row(sq[i], "doc1", "dep1")]]]
    /\ UNCHANGED <<store, now, tzAware, written>>
    /\ UNCHANGED <<gateVars, semVars, jobVars, notifyVars, scanVars, batchVars, calcVars, httpVars>>

\* _scrape_hospital_tracked_data, up to the batch insert.
TrackedScanBuild ==
    /\ ~pending["tracked"].active
    /\ \E sq \in Schedules, needs \in BOOLEAN :
       \E fs \in [1..Len(sq) -> StoreOutcomes] :
         LET results == [i \in 1..Len(sq) |->
                           build_snapshot_row(sq[i], "doc1", "dep1", needs,
                                              now_tw(now, tzAware), fs[i])]
             rows == ReturnedRows(results)
         IN  /\ rows # <<>>
             /\ pending' = [pending EXCEPT !["tracked"] =
                              [active |-> TRUE, rows |-> rows]]
    /\ UNCHANGED <<store, now, tzAware, written>>
    /\ UNCHANGED <<gateVars, semVars, jobVars, notifyVars, scanVars, batchVars, calcVars, httpVars>>

\* The slot _sync_hospital_morning_progress rebuilds from a stored snapshot.
SlotOfSnapshot(snap, nowdt) ==
    DoctorSlot("D1", today_tw(nowdt), snap.key.session_type, snap.total_quota,
               snap.current_registered, snap.key.clinic_room, snap.is_full, "")

\* _sync_hospital_morning_progress, up to the batch insert.
MorningSyncBuild ==
    /\ ~pending["sync"].active
    /\ now % MinutesPerDay = 8 * 60
    /\ \E fs \in [1..Len(store) -> StoreOutcomes] :
         LET nowdt == now_tw(now, tzAware)
             snaps == SelectSeq(store, LAMBDA r :
                        /\ r.key.session_date = today_tw(nowdt)
                        /\ r.key.clinic_room # "")
             results == [i \in 1..Len(snaps) |->
                           build_snapshot_row(SlotOfSnapshot(snaps[i], nowdt),
                                              snaps[i].key.doctor_id,
                                              snaps[i].key.department_id, TRUE,
                                              nowdt, fs[i])]
             rows == ReturnedRows(results)
         IN  /\ rows # <<>>
             /\ pending' = [pending EXCEPT !["sync"] =
                              [active |-> TRUE, rows |-> rows]]
    /\ UNCHANGED <<store, now, tzAware, written>>
    /\ UNCHANGED <<gateVars, semVars, jobVars, notifyVars, scanVars, batchVars, calcVars, httpVars>>

\* await batch_insert_snapshots(rows) of job j.
WriteBatch(j) ==
    /\ pending[j].active
    /\ store' = batch_insert_snapshots(store, pending[j].rows)
    /\ written' = written \cup SeqToKeys(pending[j].rows)
    /\ pending' = [pending EXCEPT ![j] = Idle]
    /\ UNCHANGED <<now, tzAware>>
    /\ UNCHANGED <<gateVars, semVars, jobVars, notifyVars, scanVars, batchVars, calcVars, httpVars>>

FullScanWrite == WriteBatch("full")
TrackedScanWrite == WriteBatch("tracked")
MorningSyncWrite == WriteBatch("sync")

(***************************************************************************)
(* SpecSem: CMUHScraper.fetch_schedule.  One fetch_one task per doctor     *)
(* link, each holding the semaphore while its detail request is in flight. *)
(***************************************************************************)
MaxDoctors == 7        \* doctor links on one department page
MaxDepts == 2          \* department fetches explored

\* A faulty variant: a semaphore one wider.
SemaphoreSix == 5 + 1

\* Line 139: sem = asyncio.Semaphore(5)
DetailConcurrency == 5

Doctors == 1..MaxDoctors

SemInit ==
    /\ sem = DetailConcurrency
    /\ docPc = [d \in Doctors |-> "none"]
    /\ fetched = 0

SemOff == sem = 0 /\ docPc = <<>> /\ fetched = 0

InFlight == { d \in DOMAIN docPc : docPc[d] = "inflight" }

\* fetch_schedule reaches the gather with n doctor links.
FetchScheduleStart ==
    /\ fetched < MaxDepts
    /\ \A d \in Doctors : docPc[d] = "none"
    /\ \E n \in 1..MaxDoctors :
         docPc' = [d \in Doctors |-> IF d <= n THEN "waiting" ELSE "none"]
    /\ sem' = DetailConcurrency
    /\ UNCHANGED fetched
    /\ UNCHANGED <<gateVars, storeVars, jobVars, notifyVars, scanVars, batchVars, calcVars, httpVars>>

\* async with sem: entered, the detail request is issued.
Acquire(d) ==
    /\ docPc[d] = "waiting"
    /\ sem > 0
    /\ sem' = sem - 1
    /\ docPc' = [docPc EXCEPT ![d] = "inflight"]
    /\ UNCHANGED fetched
    /\ UNCHANGED <<gateVars, storeVars, jobVars, notifyVars, scanVars, batchVars, calcVars, httpVars>>

\* _fetch_doctor_slots returns (slots, or [] on an error): the block is left.
Release(d) ==
    /\ docPc[d] = "inflight"
    /\ sem' = sem + 1
    /\ docPc' = [docPc EXCEPT ![d] = "done"]
    /\ UNCHANGED fetched
    /\ UNCHANGED <<gateVars, storeVars, jobVars, notifyVars, scanVars, batchVars, calcVars, httpVars>>

\* The gather returns: fetch_schedule returns its slots.
FetchScheduleReturn ==
    /\ \E d \in Doctors : docPc[d] = "done"
    /\ \A d \in Doctors : docPc[d] \in {"done", "none"}
    /\ docPc' = [d \in Doctors |-> "none"]
    /\ fetched' = fetched + 1
    /\ UNCHANGED sem
    /\ UNCHANGED <<gateVars, storeVars, jobVars, notifyVars, scanVars, batchVars, calcVars, httpVars>>

AcquireAny == \E d \in Doctors : Acquire(d)
ReleaseAny == \E d \in Doctors : Release(d)

(***************************************************************************)
(* SpecJobs: start_scheduler's three jobs and the admin trigger hooks.     *)
(* The scheduler counts the runs it started itself against max_instances;  *)
(* a trigger hook creates its task without asking the scheduler.           *)
(***************************************************************************)
MaxManual == 2         \* admin-triggered runs of one job in progress
MaxSkipped == 2        \* skipped cron ticks counted per job

JobIds == {"cmuh_master_data", "morning_tracked_sync", "cmuh_appointments"}

\* main.py: scrape-now and master-data-now.
TriggerHooks == {"cmuh_master_data", "cmuh_appointments"}

max_instances == 1

JobsInit ==
    /\ cronRun = [j \in JobIds |-> 0]
    /\ manualRun = [j \in TriggerHooks |-> 0]
    /\ skipped = [j \in JobIds |-> 0]

JobsOff == cronRun = <<>> /\ manualRun = <<>> /\ skipped = <<>>

\* A cron tick of job j while fewer than max_instances of its runs execute.
CronStart(j) ==
    /\ cronRun[j] < max_instances
    /\ cronRun' = [cronRun EXCEPT ![j] = @ + 1]
    /\ UNCHANGED <<manualRun, skipped>>
    /\ UNCHANGED <<gateVars, storeVars, semVars, notifyVars, scanVars, batchVars, calcVars, httpVars>>

\* A cron tick of job j at max_instances: the run is skipped, nothing is queued.
CronSkip(j) ==
    /\ cronRun[j] >= max_instances
    /\ skipped[j] < MaxSkipped
    /\ skipped' = [skipped EXCEPT ![j] = @ + 1]
    /\ UNCHANGED <<cronRun, manualRun>>
    /\ UNCHANGED <<gateVars, storeVars, semVars, notifyVars, scanVars, batchVars, calcVars, httpVars>>

CronFinish(j) ==
    /\ cronRun[j] > 0
    /\ cronRun' = [cronRun EXCEPT ![j] = @ - 1]
    /\ UNCHANGED <<manualRun, skipped>>
    /\ UNCHANGED <<gateVars, storeVars, semVars, notifyVars, scanVars, batchVars, calcVars, httpVars>>

\* trigger_scrape_now / trigger_master_data_now: asyncio.create_task(run()).
ManualTrigger(j) ==
    /\ manualRun[j] < MaxManual
    /\ manualRun' = [manualRun EXCEPT ![j] = @ + 1]
    /\ UNCHANGED <<cronRun, skipped>>
    /\ UNCHANGED <<gateVars, storeVars, semVars, notifyVars, scanVars, batchVars, calcVars, httpVars>>

ManualFinish(j) ==
    /\ manualRun[j] > 0
    /\ manualRun' = [manualRun EXCEPT ![j] = @ - 1]
    /\ UNCHANGED <<cronRun, skipped>>
    /\ UNCHANGED <<gateVars, storeVars, semVars, notifyVars, scanVars, batchVars, calcVars, httpVars>>

CronStartAny == \E j \in JobIds : CronStart(j)
CronSkipAny == \E j \in JobIds : CronSkip(j)
CronFinishAny == \E j \in JobIds : CronFinish(j)
ManualTriggerAny == \E j \in TriggerHooks : ManualTrigger(j)
ManualFinishAny == \E j \in TriggerHooks : ManualFinish(j)

(***************************************************************************)
(* Notification engine (services/notification.py).                         *)
(***************************************************************************)
\* A faulty variant: the thresholds walked upwards.
ThresholdsAscending == << 5, 10, 20 >>

\* Lines 154-158: the thresholds in the order they are checked.
thresholds == << 20, 10, 5 >>

ThresholdSet == { thresholds[i] : i \in 1..Len(thresholds) }

Channels == {"email", "line"}

\* A faulty variant: the appointment number is not looked at.
target_from_quota(sub, snap) ==
    IF Truthy(snap.total_quota) THEN snap.total_quota ELSE 0

\* Lines 86-91: the target ticket number.
target_number(sub, snap) ==
    IF sub.appointment_number # None THEN sub.appointment_number
    ELSE IF Truthy(snap.total_quota) THEN snap.total_quota ELSE 0

\* A faulty variant: the waiting list is counted although queue details exist.
remaining_by_waiting_list(snap, current, target) ==
    IF snap.waiting_list # <<>>
    THEN IF current > target THEN 0
         ELSE Cardinality({ i \in 1..Len(snap.waiting_list) :
                             snap.waiting_list[i] < target })
    ELSE Max(0, target - current)

\* Lines 95-113: remaining people between current_number and target_number.
remaining_ahead(snap, current, target) ==
    IF snap.clinic_queue_details # <<>>
    THEN IF current >= target THEN 0
         ELSE Cardinality({ i \in 1..Len(snap.clinic_queue_details) :
                             /\ snap.clinic_queue_details[i].number > current
                             /\ snap.clinic_queue_details[i].number < target
                             /\ snap.clinic_queue_details[i].status # "done" })
    ELSE IF snap.waiting_list # <<>>
    THEN IF current > target THEN 0
         ELSE Cardinality({ i \in 1..Len(snap.waiting_list) :
                             snap.waiting_list[i] < target })
    ELSE Max(0, target - current)

\* A faulty variant: the notified flag is not looked at.
never_notified(sub, thr) == FALSE

\* Lines 163-164: if sub.get(notified_flag): continue
already_notified(sub, thr) == sub.notified[thr]

\* A faulty variant: a number that has passed is not looked at.
number_never_passed(current, target) == FALSE

\* Line 166: the clinic is already past the target.
number_passed(current, target) == current > target

\* A faulty variant: the update clears the other notified flags.
mark_only(flags, thr) == [t \in DOMAIN flags |-> t = thr]

\* update({notified_flag: True}) of lines 169 and 282.
mark_notified(flags, thr) == [flags EXCEPT ![thr] = TRUE]

RECURSIVE mark_all(_, _)
mark_all(flags, marks) ==
    IF marks = {} THEN flags
    ELSE LET thr == CHOOSE t \in marks : TRUE
         IN  mark_all(mark_notified(flags, thr), marks \ {thr})

\* A faulty variant: a missing snapshot or current number is not looked at.
progress_always_known(snap) == FALSE

\* Lines 71-83: no snapshot, or a snapshot without a current number.
no_progress(snap) == ~snap.found \/ snap.current_number = None

\* Lines 160-198: the threshold loop.  acc is [marks, tasks]: the flags set
\* because the number has passed, and the thresholds a _send_alerts coroutine
\* was appended to tasks for.  After the append the loop breaks.
RECURSIVE threshold_loop(_, _, _, _, _, _)
threshold_loop(i, sub, current, target, remaining, acc) ==
    IF i > Len(thresholds) THEN acc
    ELSE LET thr == thresholds[i]
         IN  IF ~sub.notify_at[thr]
             THEN threshold_loop(i + 1, sub, current, target, remaining, acc)
             ELSE IF already_notified(sub, thr)
             THEN threshold_loop(i + 1, sub, current, target, remaining, acc)
             ELSE IF number_passed(current, target)
             THEN threshold_loop(i + 1, sub, current, target, remaining,
                                 [acc EXCEPT !.marks = @ \cup {thr}])
             ELSE IF remaining > thr
             THEN threshold_loop(i + 1, sub, current, target, remaining, acc)
             ELSE [acc EXCEPT !.tasks = Append(@, thr)]

\* A faulty variant: a send task for every enabled channel, recipient or not.
enabled_channels(sub) ==
    (IF sub.notify_email THEN {"email"} ELSE {})
    \cup (IF sub.notify_line THEN {"line"} ELSE {})

\* Lines 231 and 255 of _send_alerts: the channels a send task is made for.
send_channels(sub) ==
    (IF sub.notify_email /\ sub.email # "" THEN {"email"} ELSE {})
    \cup (IF sub.notify_line /\ sub.line_user_id # "" THEN {"line"} ELSE {})

(***************************************************************************)
(* SpecNotify: check_and_notify cycles.  Run 0 is the cycle of the         *)
(* scheduler's tracked-scan job (one at a time, max_instances), runs       *)
(* 1..NumManual are cycles of admin-triggered tracked scans, which the     *)
(* trigger hook starts whatever else is running.  The awaits of a cycle    *)
(* are the points where another cycle's steps interleave.                  *)
(***************************************************************************)
NumManual == 1         \* admin-triggered cycles that may be in progress

Runs == 0..NumManual

\* The subscriptions in the order the query returns them.
SubIds == << "s1", "s2" >>

SubSet == { SubIds[i] : i \in 1..Len(SubIds) }

NoFlags == [t \in ThresholdSet |-> FALSE]

\* What the latest-snapshot query of _process_subscription may return.
Snap(current, quota, wl, details) ==
    [found |-> TRUE, current_number |-> current, total_quota |-> quota,
     waiting_list |-> wl, clinic_queue_details |-> details]

Snapshots ==
    { [found |-> FALSE, current_number |-> None, total_quota |-> None,
       waiting_list |-> <<>>, clinic_queue_details |-> <<>>],
      Snap(None, 50, <<>>, <<>>),
      Snap(5, None, <<>>, <<>>),
      Snap(12, 50, <<>>, <<>>),
      Snap(22, 28, <<>>, <<>>),
      Snap(26, None, <<>>, <<>>),
      Snap(31, 50, <<>>, <<>>),
      Snap(5, 50, <<6, 7, 8, 9, 10, 11, 12, 29, 31>>, <<>>),
      Snap(20, 50, <<27, 28, 29>>,
           << [number |-> 20, status |-> "inprogress"],
              [number |-> 21, status |-> "done"],
              [number |-> 27, status |-> "waiting"],
              [number |-> 28, status |-> "waiting"],
              [number |-> 29, status |-> "waiting"],
              [number |-> 30, status |-> "waiting"] >>) }

\* What the user set on a subscription, with the recipient lookups.
SubConfig(at, number, notify_email, email, notify_line, line_user_id, active) ==
    [notify_at |-> at, appointment_number |-> number,
     notify_email |-> notify_email, email |-> email,
     notify_line |-> notify_line, line_user_id |-> line_user_id,
     is_active |-> active]

AllOn == [t \in ThresholdSet |-> TRUE]

\* Subscription s2: the 5 threshold alone, by mail.
Config2 == SubConfig([t \in ThresholdSet |-> t = 5], 30, TRUE, "v@x", FALSE, "", TRUE)

\* A day: the configuration of the subscriptions s1 and s2, what the
\* transports do (the mail server and the LINE API each deliver "sent_ok",
\* report "sent_failed" or "raise") and whether the insert into
\* notification_logs succeeds.
Day(c1, mail, line, log_insert) ==
    [subs |-> [s \in SubSet |-> IF s = "s1" THEN c1 ELSE Config2],
     transport |-> [c \in Channels |-> IF c = "email" THEN mail ELSE line],
     log_insert |-> log_insert]

\* s1 with every threshold by mail; with two thresholds over both channels,
\* the LINE API raising; without the 20 threshold and without an appointment
\* number, by LINE; without a usable channel; with the 5 threshold alone, the
\* mail server failing; inactive; with the 10 threshold alone by mail, the
\* insert into notification_logs failing.
Days ==
    { Day(SubConfig(AllOn, 30, TRUE, "u@x", FALSE, "", TRUE), "sent_ok", "sent_ok", TRUE),
      Day(SubConfig([t \in ThresholdSet |-> t # 10], 30, TRUE, "u@x", TRUE, "U1", TRUE),
          "sent_ok", "raise", TRUE),
      Day(SubConfig([t \in ThresholdSet |-> t # 20], None, TRUE, "", TRUE, "U1", TRUE),
          "sent_ok", "sent_ok", TRUE),
      Day(SubConfig(AllOn, 30, FALSE, "u@x", TRUE, "", TRUE), "sent_ok", "sent_ok", TRUE),
      Day(SubConfig([t \in ThresholdSet |-> t = 5], 30, TRUE, "u@x", FALSE, "", TRUE),
          "sent_failed", "sent_ok", TRUE),
      Day(SubConfig(AllOn, 30, TRUE, "u@x", FALSE, "", FALSE), "sent_ok", "sent_ok", TRUE),
      Day(SubConfig([t \in ThresholdSet |-> t = 10], 30, TRUE, "u@x", FALSE, "", TRUE),
          "sent_ok", "sent_ok", FALSE) }

NoProc ==
    [sub |-> "", current |-> None, target |-> None, remaining |-> None,
     tasks |-> <<>>, marks |-> {}]

IdleCycle ==
    [pc |-> "idle", list |-> <<>>, read |-> [s \in SubSet |-> NoFlags],
     idx |-> 0, thr |-> None, chan |-> [c \in Channels |-> "off"],
     proc |-> NoProc]

NotifyInit ==
    /\ cfg \in Days
    /\ subs = [s \in SubSet |-> [notified |-> NoFlags]]
    /\ cyc = [r \in Runs |-> IdleCycle]
    /\ dispatched = [s \in SubSet |-> [t \in ThresholdSet |-> 0]]
    /\ logs = {}

NotifyOff ==
    /\ cfg = <<>> /\ subs = <<>> /\ cyc = <<>> /\ dispatched = <<>> /\ logs = {}

\* The sub dict of a cycle: the row as read at the start of the cycle, with
\* the recipient lookups of _process_subscription.
SubDict(r, s) ==
    LET c == cfg.subs[s]
    IN  [id |-> s, notify_at |-> c.notify_at, notified |-> cyc[r].read[s],
         appointment_number |-> c.appointment_number,
         notify_email |-> c.notify_email, email |-> c.email,
         notify_line |-> c.notify_line, line_user_id |-> c.line_user_id]

\* A faulty variant: the rows are read without their notified flags.
flags_not_read(table) == [s \in SubSet |-> NoFlags]

\* Lines 31-41: the rows are selected with every column, the notified flags
\* as they are in the table when the cycle starts.
read_flags(table) == [s \in SubSet |-> table[s].notified]

\* check_and_notify, lines 26-41: the active subscriptions of today are read.
StartCycle(r) ==
    /\ cyc[r].pc = "idle"
    /\ cyc' = [cyc EXCEPT ![r] =
                 [IdleCycle EXCEPT
                    !.pc = "loop",
                    !.list = SelectSeq(SubIds, LAMBDA s : cfg.subs[s].is_active),
                    !.read = read_flags(subs),
                    !.idx = 1]]
    /\ UNCHANGED <<subs, cfg, dispatched, logs>>
    /\ UNCHANGED <<gateVars, storeVars, semVars, jobVars, scanVars, batchVars, calcVars, httpVars>>

\* _process_subscription up to the gather of its tasks, with the latest
\* snapshot one of snaps.  tasks never holds more than one coroutine, which
\* is the one that runs.
ProcessSubFrom(r, snaps) ==
    /\ cyc[r].pc = "loop"
    /\ cyc[r].idx <= Len(cyc[r].list)
    /\ \E snap \in snaps :
         LET s == cyc[r].list[cyc[r].idx]
             sub == SubDict(r, s)
             current == snap.current_number
             target == target_number(sub, snap)
             remaining == remaining_ahead(snap, current, target)
             res == threshold_loop(1, sub, current, target, remaining,
                                   [marks |-> {}, tasks |-> <<>>])
             sends == send_channels(sub)
         IN  IF no_progress(snap)
             THEN /\ cyc' = [cyc EXCEPT ![r].idx = @ + 1,
                                        ![r].proc = [NoProc EXCEPT !.sub = s]]
                  /\ UNCHANGED <<subs, dispatched>>
             ELSE /\ subs' = [subs EXCEPT ![s].notified = mark_all(@, res.marks)]
                  /\ LET proc == [sub |-> s, current |-> current,
                                  target |-> target, remaining |-> remaining,
                                  tasks |-> res.tasks, marks |-> res.marks]
                     IN  IF res.tasks # <<>> /\ sends # {}
                         THEN /\ cyc' = [cyc EXCEPT
                                   ![r].pc = "alert",
                                   ![r].thr = res.tasks[1],
                                   ![r].chan = [c \in Channels |->
                                        IF c \in sends THEN "start" ELSE "off"],
                                   ![r].proc = proc]
                              /\ dispatched' = [dispatched EXCEPT
                                                  ![s][res.tasks[1]] = @ + 1]
                         ELSE IF res.tasks # <<>>
                         THEN \* _send_alerts returns with send_tasks empty
                              /\ cyc' = [cyc EXCEPT ![r].idx = @ + 1,
                                                    ![r].proc = proc]
                              /\ UNCHANGED dispatched
                         ELSE /\ cyc' = [cyc EXCEPT
                                   ![r].idx = @ + 1,
                                   ![r].proc = IF current > target
                                               THEN proc ELSE NoProc]
                              /\ UNCHANGED dispatched
    /\ UNCHANGED <<cfg, logs>>
    /\ UNCHANGED <<gateVars, storeVars, semVars, jobVars, scanVars, batchVars, calcVars, httpVars>>

ProcessSub(r) == ProcessSubFrom(r, Snapshots)

LogEntry(r, s, t, c, state) ==
    [run |-> r, sub |-> s, threshold |-> t, channel |-> c, state |-> state]

\* _send_and_log, lines 311-343: the attempt is logged first; if the insert
\* raises, log_id is None and the function goes on.
LogPending(r, c) ==
    /\ cyc[r].pc = "alert"
    /\ cyc[r].chan[c] = "start"
    /\ IF cfg.log_insert
       THEN /\ logs' = logs \cup
                   {LogEntry(r, cyc[r].proc.sub, cyc[r].thr, c, "pending")}
            /\ cyc' = [cyc EXCEPT ![r].chan[c] = "logged"]
       ELSE /\ logs' = logs
            /\ cyc' = [cyc EXCEPT ![r].chan[c] = "nolog"]
    /\ UNCHANGED <<subs, cfg, dispatched>>
    /\ UNCHANGED <<gateVars, storeVars, semVars, jobVars, scanVars, batchVars, calcVars, httpVars>>

\* A faulty variant: an exception of the transport leaves _send_and_log.
send_outcome_uncaught(transport) ==
    IF transport = "raise" THEN "raised" ELSE transport

\* _send_and_log, lines 349-368: what the try block makes of the transport:
\* an exception is caught and counts as a failed send.
send_outcome(transport) ==
    IF transport = "raise" THEN "sent_failed" ELSE transport

\* _send_and_log, lines 349-368: the transport is awaited.  Without a
\* log_id the update of lines 370-385 is skipped and the function returns.
\* An exception that left _send_and_log would leave the gathers of
\* _send_alerts and _process_subscription and the loop of check_and_notify.
Send(r, c) ==
    /\ cyc[r].pc = "alert"
    /\ cyc[r].chan[c] \in {"logged", "nolog"}
    /\ LET outcome == send_outcome(cfg.transport[c])
       IN  IF outcome = "raised"
           THEN cyc' = [cyc EXCEPT ![r] = IdleCycle]
           ELSE cyc' = [cyc EXCEPT ![r].chan[c] =
                          IF cyc[r].chan[c] = "logged" THEN outcome ELSE "done"]
    /\ UNCHANGED <<subs, cfg, dispatched, logs>>
    /\ UNCHANGED <<gateVars, storeVars, semVars, jobVars, scanVars, batchVars, calcVars, httpVars>>

\* _send_and_log, lines 370-385: the log row is updated with the outcome.
LogFinal(r, c) ==
    /\ cyc[r].pc = "alert"
    /\ cyc[r].chan[c] \in {"sent_ok", "sent_failed"}
    /\ LET s == cyc[r].proc.sub
           t == cyc[r].thr
           final == IF cyc[r].chan[c] = "sent_ok" THEN "success" ELSE "failed"
       IN  logs' = (logs \ {LogEntry(r, s, t, c, "pending")})
                   \cup {LogEntry(r, s, t, c, final)}
    /\ cyc' = [cyc EXCEPT ![r].chan[c] = "done"]
    /\ UNCHANGED <<subs, cfg, dispatched>>
    /\ UNCHANGED <<gateVars, storeVars, semVars, jobVars, scanVars, batchVars, calcVars, httpVars>>

\* _send_alerts, lines 276-287: the sends are gathered, the flag is set.
MarkNotified(r) ==
    /\ cyc[r].pc = "alert"
    /\ \A c \in Channels : cyc[r].chan[c] \in {"off", "done"}
    /\ subs' = [subs EXCEPT ![cyc[r].proc.sub].notified =
                            mark_notified(@, cyc[r].thr)]
    /\ cyc' = [cyc EXCEPT ![r].pc = "loop",
                          ![r].idx = @ + 1,
                          ![r].thr = None,
                          ![r].chan = [c \in Channels |-> "off"],
                          ![r].proc = NoProc]
    /\ UNCHANGED <<cfg, dispatched, logs>>
    /\ UNCHANGED <<gateVars, storeVars, semVars, jobVars, scanVars, batchVars, calcVars, httpVars>>

\* check_and_notify returns: every subscription of the list was processed.
FinishCycle(r) ==
    /\ cyc[r].pc = "loop"
    /\ cyc[r].idx > Len(cyc[r].list)
    /\ cyc' = [cyc EXCEPT ![r] = IdleCycle]
    /\ UNCHANGED <<subs, cfg, dispatched, logs>>
    /\ UNCHANGED <<gateVars, storeVars, semVars, jobVars, scanVars, batchVars, calcVars, httpVars>>

\* The snapshots that leave the subscription a cycle is about to process
\* within five of its turn: the current number is known and not above the
\* target, and at most five are ahead.
NearSnapshots(r) ==
    IF cyc[r].pc # "loop" \/ cyc[r].idx > Len(cyc[r].list) THEN {}
    ELSE LET sub == SubDict(r, cyc[r].list[cyc[r].idx])
         IN  {snap \in Snapshots :
                /\ ~no_progress(snap)
                /\ snap.current_number <= target_number(sub, snap)
                /\ remaining_ahead(snap, snap.current_number,
                                   target_number(sub, snap)) <= 5}

\* The consecutive cycles of the scheduler's job (run 0) while every
\* subscription stays within five of its turn.
ProcessNear == ProcessSubFrom(0, NearSnapshots(0))
LogPendingJob == \E c \in Channels : LogPending(0, c)
SendJob == \E c \in Channels : Send(0, c)
LogFinalJob == \E c \in Channels : LogFinal(0, c)

StartCycleAny == \E r \in Runs : StartCycle(r)
ProcessSubAny == \E r \in Runs : ProcessSub(r)
LogPendingAny == \E r \in Runs, c \in Channels : LogPending(r, c)
SendAny == \E r \in Runs, c \in Channels : Send(r, c)
LogFinalAny == \E r \in Runs, c \in Channels : LogFinal(r, c)
MarkNotifiedAny == \E r \in Runs : MarkNotified(r)
FinishCycleAny == \E r \in Runs : FinishCycle(r)

(***************************************************************************)
(* SpecRemaining: the remaining-ahead computation of _process_subscription *)
(* applied to a grid of snapshots, current numbers and targets.            *)
(***************************************************************************)
MaxTicket == 8

Tickets == 0..MaxTicket

\* clinic_queue_details of a snapshot: none, or one entry per ticket 1..6.
QueueDetails ==
    { <<>>,
      << [number |-> 1, status |-> "done"],
         [number |-> 2, status |-> "inprogress"],
         [number |-> 3, status |-> "waiting"],
         [number |-> 4, status |-> "done"],
         [number |-> 5, status |-> "waiting"],
         [number |-> 6, status |-> "waiting"] >>,
      << [number |-> 3, status |-> "done"],
         [number |-> 5, status |-> "inprogress"],
         [number |-> 7, status |-> "waiting"] >> }

WaitingLists == { <<>>, <<3, 5, 6>>, <<2, 4, 7, 8>> }

CalcOff == calc = <<>>

RemainingInit ==
    calc \in { [done |-> FALSE, out |-> None, current |-> c, target |-> t,
                snap |-> Snap(c, None, wl, dt)] :
                 c \in Tickets, t \in Tickets, wl \in WaitingLists,
                 dt \in QueueDetails }

\* Lines 93-113 of _process_subscription.
ComputeRemaining ==
    /\ ~calc.done
    /\ calc' = [calc EXCEPT !.done = TRUE,
                            !.out = remaining_ahead(calc.snap, calc.current,
                                                    calc.target)]
    /\ UNCHANGED <<gateVars, storeVars, semVars, jobVars, notifyVars, scanVars, batchVars, httpVars>>

\* The handler returns; the value is dropped with its frame.
RemainingReturn ==
    /\ calc.done
    /\ calc' = [calc EXCEPT !.done = FALSE, !.out = None]
    /\ UNCHANGED <<gateVars, storeVars, semVars, jobVars, notifyVars, scanVars, batchVars, httpVars>>

(***************************************************************************)
(* calculate_eta (api/hospitals.py).  The session date string is known by  *)
(* whether it is empty, parses, and the day it names; now is the value of  *)
(* datetime.now() in minutes; a result is None, one of the two terminal    *)
(* texts, or the text strftime("%H:%M") gives, kept as hours and minutes.  *)
(***************************************************************************)
\* start_times of calculate_eta: 08:30, 13:30, 18:00.
start_times(t) ==
    CASE t = "AM"  -> 8 * 60 + 30
      [] t = "PM"  -> 13 * 60 + 30
      [] t = "EVE" -> 18 * 60

EtaNone == [kind |-> "none", hh |-> 0, mm |-> 0]
EtaEnded == [kind |-> "ended", hh |-> 0, mm |-> 0]
EtaPassed == [kind |-> "passed", hh |-> 0, mm |-> 0]

\* estimated_eta.strftime("%H:%M")
strftime_HM(dt) ==
    [kind |-> "time", hh |-> (dt % MinutesPerDay) \div 60,
     mm |-> (dt % MinutesPerDay) % 60]

\* A faulty variant: the pace of the formula in the docstring, 5 minutes
\* for every session.
five_minutes_per_patient(t) == 5

\* 3 if session_type == "晚上" else 5
minutes_per_patient(t) == IF t = "EVE" THEN 3 ELSE 5

\* A faulty variant: the waiting list is not consulted.
passed_whatever_waits(current, waiting_list, target) ==
    Truthy(target) /\ current # None /\ target < current

\* Lines 67-70: the target number is already passed and not in the waiting
\* list.
already_passed(current, waiting_list, target) ==
    /\ Truthy(target)
    /\ current # None
    /\ target < current
    /\ \/ waiting_list = <<>>
       \/ ~\E i \in 1..Len(waiting_list) : waiting_list[i] = target

calculate_eta(date_str, session_type, current, registered_count, waiting_list, target, nowdt) ==
    IF session_type = "" \/ date_str.text = "" THEN EtaNone
    ELSE IF session_type \notin SessionTypes THEN EtaNone
    ELSE IF date_str.text = "bad" THEN EtaNone
    ELSE
    LET today == nowdt \div MinutesPerDay
        target_date == date_str.day
        schedule_start == target_date * MinutesPerDay + start_times(session_type)
        below == Cardinality({i \in 1..Len(waiting_list) :
                                waiting_list[i] < target})
        with_target ==
            IF waiting_list # <<>> THEN below
            ELSE IF current # None
            THEN Max(0, target - current)
            ELSE Max(0, target - 1)
        passed == already_passed(current, waiting_list, target)
        registered == IF Truthy(registered_count) THEN registered_count ELSE 0
        without_target == Max(0, registered - Len(waiting_list))
        total_people_ahead ==
            IF Truthy(target) THEN with_target ELSE without_target
        base_time == IF nowdt < schedule_start THEN schedule_start ELSE nowdt
    IN  IF target_date < today THEN EtaEnded
        ELSE IF passed THEN EtaPassed
        ELSE strftime_HM(base_time
                         + total_people_ahead * minutes_per_patient(session_type))

(***************************************************************************)
(* SpecEta: calculate_eta applied to a grid of arguments and clock values. *)
(***************************************************************************)
MaxEtaDay == 2       \* the session dates: day 0 .. MaxEtaDay; the clock is in day 1

EtaDates ==
    { [text |-> "", day |-> 0], [text |-> "bad", day |-> 0] }
    \cup { [text |-> "date", day |-> d] : d \in 0..MaxEtaDay }

\* 08:00, 09:00, 13:00, 14:00, 18:30 and 23:50 of day 1.
EtaClock ==
    { MinutesPerDay + m :
        m \in {8 * 60, 9 * 60, 13 * 60, 14 * 60, 18 * 60 + 30, 23 * 60 + 50} }

EtaWaitingLists ==
    { <<>>, [i \in 1..20 |-> i], [i \in 1..10 |-> 40 + i] }

EtaInit ==
    calc \in { [done |-> FALSE, out |-> EtaNone, date |-> d, session_type |-> t,
                current |-> c, registered |-> 50, waiting_list |-> wl,
                target |-> g, nowdt |-> n] :
                 d \in EtaDates, t \in SessionTypes \cup {"other", ""},
                 c \in {None, 5, 10, 25}, wl \in EtaWaitingLists,
                 g \in {None, 0, 10, 15, 40}, n \in EtaClock }

ComputeEta ==
    /\ ~calc.done
    /\ calc' = [calc EXCEPT
                  !.done = TRUE,
                  !.out = calculate_eta(calc.date, calc.session_type,
                                        calc.current, calc.registered,
                                        calc.waiting_list, calc.target,
                                        calc.nowdt)]
    /\ UNCHANGED <<gateVars, storeVars, semVars, jobVars, notifyVars, scanVars, batchVars, httpVars>>

\* The endpoint returns; the value is dropped with its frame.
EtaReturn ==
    /\ calc.done
    /\ calc' = [calc EXCEPT !.done = FALSE, !.out = EtaNone]
    /\ UNCHANGED <<gateVars, storeVars, semVars, jobVars, notifyVars, scanVars, batchVars, httpVars>>

(***************************************************************************)
(* SpecHttp: one operation of an adapter (scrapers/cmuh.py, hmmh.py) and   *)
(* the HTTP request it issues.  _get and _post are wrapped by tenacity's   *)
(* retry with stop_after_attempt(3) and raise after the last attempt;      *)
(* CMUHScraper._fetch_doctor_slots calls client.get itself.  The page is   *)
(* parsed after the request returned.                                      *)
(***************************************************************************)
stop_after_attempt == 3

Adapters == {"CMUH", "HMMH"}

RequestKinds == {"departments", "schedule", "doctor_detail", "progress"}

\* The operations that issue a request: HMMH's schedule is one page.
Operations ==
    {<<a, k>> : a \in Adapters, k \in RequestKinds}
    \ {<<"HMMH", "doctor_detail">>}

\* The number of times the operation sends its request before it gives up.
attempts_allowed(a, k) ==
    IF a = "CMUH" /\ k = "doctor_detail" THEN 1 ELSE stop_after_attempt

\* What the operation hands its caller when the request failed for good.
on_transport_failure(a, k) ==
    CASE k = "doctor_detail" -> "empty"
      [] k = "progress"      -> "absent"
      [] OTHER               -> "raise"

\* What the operation returns for a page without the data it looks for.
nothing_found(k) == IF k = "progress" THEN "absent" ELSE "empty"

NoRequest ==
    [pc |-> "idle", adapter |-> "", kind |-> "", attempts |-> 0,
     failure |-> "none", result |-> ""]

HttpInit == req = NoRequest

HttpOff == req = <<>>

CallOperation ==
    /\ req.pc = "idle"
    /\ \E op \in Operations :
          req' = [NoRequest EXCEPT !.pc = "sending", !.adapter = op[1],
                                   !.kind = op[2]]
    /\ UNCHANGED <<gateVars, storeVars, semVars, jobVars, notifyVars, scanVars, batchVars, calcVars>>

\* client.get / client.post and raise_for_status.
SendRequest ==
    /\ req.pc = "sending"
    /\ \E ok \in BOOLEAN :
          LET n == req.attempts + 1 IN
          req' = IF ok THEN [req EXCEPT !.attempts = n, !.pc = "parsing"]
                 ELSE IF n < attempts_allowed(req.adapter, req.kind)
                 THEN [req EXCEPT !.attempts = n, !.pc = "backoff"]
                 ELSE [req EXCEPT !.attempts = n, !.pc = "done",
                                  !.failure = "transport",
                                  !.result = on_transport_failure(req.adapter,
                                                                  req.kind)]
    /\ UNCHANGED <<gateVars, storeVars, semVars, jobVars, notifyVars, scanVars, batchVars, calcVars>>

\* wait_exponential between two attempts.
Backoff ==
    /\ req.pc = "backoff"
    /\ req' = [req EXCEPT !.pc = "sending"]
    /\ UNCHANGED <<gateVars, storeVars, semVars, jobVars, notifyVars, scanVars, batchVars, calcVars>>

\* The page is parsed: data, nothing of what is looked for, or an exception
\* of the parsing code, which no handler of the operation catches.
ParseResponse ==
    /\ req.pc = "parsing"
    /\ \E out \in {"value", "nothing", "error"} :
          req' = [req EXCEPT
                    !.pc = "done",
                    !.failure = IF out = "error" THEN "parse" ELSE "none",
                    !.result = CASE out = "value"   -> "value"
                                 [] out = "nothing" -> nothing_found(req.kind)
                                 [] out = "error"   -> "raise"]
    /\ UNCHANGED <<gateVars, storeVars, semVars, jobVars, notifyVars, scanVars, batchVars, calcVars>>

OperationReturn ==
    /\ req.pc = "done"
    /\ req' = NoRequest
    /\ UNCHANGED <<gateVars, storeVars, semVars, jobVars, notifyVars, scanVars, batchVars, calcVars>>

(***************************************************************************)
(* SpecTarget: the target number of _process_subscription for a grid of    *)
(* appointment numbers and total quotas.                                   *)
(***************************************************************************)
TicketOrNone == {None} \cup Tickets

TargetInit ==
    calc \in { [done |-> FALSE, out |-> None,
                sub |-> [appointment_number |-> a],
                snap |-> Snap(1, q, <<>>, <<>>)] :
                 a \in TicketOrNone, q \in TicketOrNone }

\* Lines 85-91 of _process_subscription.
ComputeTarget ==
    /\ ~calc.done
    /\ calc' = [calc EXCEPT !.done = TRUE,
                            !.out = target_number(calc.sub, calc.snap)]
    /\ UNCHANGED <<gateVars, storeVars, semVars, jobVars, notifyVars, scanVars, batchVars, httpVars>>

\* The handler returns; the value is dropped with its frame.
TargetReturn ==
    /\ calc.done
    /\ calc' = [calc EXCEPT !.done = FALSE, !.out = None]
    /\ UNCHANGED <<gateVars, storeVars, semVars, jobVars, notifyVars, scanVars, batchVars, httpVars>>

(***************************************************************************)
(* SpecTracked: what the tracked scan's worker resolves from the table     *)
(* tracking_subscriptions: the departments it scrapes and the doctors it   *)
(* fetches progress for.                                                   *)
(***************************************************************************)
MaxSubs == 2

DeptIds == {"dep1", "dep2"}

DoctorIds == {"doc1", "doc2"}

\* The doctors table: the department of a doctor.
department_of(doc) == IF doc = "doc1" THEN "dep1" ELSE "dep2"

SubscriptionRows ==
    [department_id : DeptIds \cup {""}, doctor_id : DoctorIds \cup {""},
     is_active : BOOLEAN]

SubscriptionTables ==
    UNION {[1..n -> SubscriptionRows] : n \in 0..MaxSubs}

\* Lines 231-237: select("department_id, doctor_id") of every row.
select_tracks(table) == table

\* Lines 243-261: the tracked departments and doctors.
tracked_targets(table) ==
    LET tracks == select_tracks(table)
        tracked_depts == {tracks[i].department_id : i \in
                            {j \in 1..Len(tracks) : tracks[j].department_id # ""}}
        tracked_doctors == {tracks[i].doctor_id : i \in
                              {j \in 1..Len(tracks) : tracks[j].doctor_id # ""}}
    IN  [depts |-> tracked_depts
                   \cup {department_of(doc) : doc \in tracked_doctors},
         doctors |-> tracked_doctors]

NoTargets == [depts |-> {}, doctors |-> {}]

TrackedInit ==
    calc \in { [done |-> FALSE, out |-> NoTargets, table |-> t] :
                 t \in SubscriptionTables }

\* Lines 231-282 of _scrape_hospital_tracked_data.
ResolveTracked ==
    /\ ~calc.done
    /\ calc' = [calc EXCEPT !.done = TRUE,
                            !.out = tracked_targets(calc.table)]
    /\ UNCHANGED <<gateVars, storeVars, semVars, jobVars, notifyVars, scanVars, batchVars, httpVars>>

\* The worker returns.
TrackedReturn ==
    /\ calc.done
    /\ calc' = [calc EXCEPT !.done = FALSE, !.out = NoTargets]
    /\ UNCHANGED <<gateVars, storeVars, semVars, jobVars, notifyVars, scanVars, batchVars, httpVars>>

(***************************************************************************)
(* SpecSupplement: one worker of the tracked scan                          *)
(* (_scrape_hospital_tracked_data) with its requests.  The worker resolves *)
(* the tracked departments and doctors, keeps the departments of its own   *)
(* hospital, fetches each department's schedule, then fetches one by one   *)
(* the tracked doctors no schedule returned, and writes the rows it built. *)
(* A request is recorded with its kind and the department or doctor it is  *)
(* made for.                                                               *)
(***************************************************************************)
\* The adapters whose fetch_schedule parses the department's page: the CMUH
\* adapter fetches every linked doctor's detail page, the HMMH adapter
\* parses no schedule and returns the empty list.
parses_schedule(h) == h # "HMMH"

\* The adapters that define _fetch_doctor_slots, the method the supplement
\* calls: the CMUH adapters do, HMMHScraper does not.
has_fetch_doctor_slots(h) == h # "HMMH"

\* The workers whose adapters are defined in the scrapers package.
SupplementWorkers == {"CMUH", "HMMH"}

\* The departments table: the hospital of a department.
hospital_of_department(dep) == IF dep = "dep1" THEN "CMUH" ELSE "HMMH"

hospital_of_target(t) ==
    IF t \in DeptIds THEN hospital_of_department(t)
    ELSE hospital_of_department(department_of(t))

\* Line 288: the departments a subscription row names itself.
entire_depts(table) ==
    {table[i].department_id :
        i \in {j \in 1..Len(table) : table[j].department_id # ""}}

\* Lines 268-276: the departments query, .in_(tracked_depts) and
\* .eq("hospital_id", hosp_id).
own_departments(h, depts) ==
    {dep \in depts : hospital_of_department(dep) = h}

\* Lines 333-340: the doctors query of the supplement, .in_(missing_ids)
\* with no hospital filter.
supplement_doctors(h, missing) == missing

Request(kind, target) == [kind |-> kind, target |-> target]

NewSupplement(h, table) ==
    [pc |-> "start", h |-> h, table |-> table, targets |-> NoTargets,
     todo |-> {}, scraped |-> {}, left |-> {}, fetched |-> {},
     rows |-> {}, requests |-> {}, written |-> {}, failed |-> FALSE,
     supplemented |-> FALSE]

SupplementInit ==
    calc \in {NewSupplement(h, t) :
                 h \in SupplementWorkers, t \in SubscriptionTables}

\* Lines 231-282: the queries before the department loop and the two
\* early returns.
ResolveWorker ==
    /\ calc.pc = "start"
    /\ LET tracks == select_tracks(calc.table)
           targets == tracked_targets(calc.table)
       IN  calc' = IF Len(tracks) = 0 \/ targets.depts = {}
                   THEN [calc EXCEPT !.pc = "done"]
                   ELSE [calc EXCEPT
                           !.targets = targets,
                           !.todo = own_departments(calc.h, targets.depts),
                           !.pc = "dept"]
    /\ UNCHANGED <<gateVars, storeVars, semVars, jobVars, notifyVars, scanVars, batchVars, httpVars>>

\* Lines 284-323: one turn of the department loop.  fetch_schedule requests
\* the department's page and, in the CMUH adapter, the detail page of every
\* doctor linked on it; a row is built for every slot, with a progress
\* request when the slot is tracked and its fetch is due.
ScrapeDepartment ==
    /\ calc.pc = "dept"
    /\ calc.todo # {}
    /\ \E dep \in calc.todo, raised \in BOOLEAN, due \in BOOLEAN :
       \E links \in SUBSET {doc \in DoctorIds : department_of(doc) = dep} :
       \E ok \in SUBSET links :
          LET listed == IF parses_schedule(calc.h) THEN links ELSE {}
              got == IF raised THEN {} ELSE ok \cap listed
              needing == {doc \in got :
                            \/ dep \in entire_depts(calc.table)
                            \/ doc \in calc.targets.doctors}
          IN  calc' = [calc EXCEPT
                         !.todo = @ \ {dep},
                         !.scraped = @ \cup got,
                         !.rows = @ \cup got,
                         !.requests = @ \cup {Request("schedule", dep)}
                            \cup {Request("detail", doc) : doc \in
                                     IF raised THEN {} ELSE listed}
                            \cup {Request("progress", doc) : doc \in
                                     IF due THEN needing ELSE {}}]
    /\ UNCHANGED <<gateVars, storeVars, semVars, jobVars, notifyVars, scanVars, batchVars, httpVars>>

\* Lines 325-345: the missing doctors and the query of their rows; when the
\* query raises, doc_info_res is None and reading its data raises inside
\* the worker's outer try block.
StartSupplement ==
    /\ calc.pc = "dept"
    /\ calc.todo = {}
    /\ LET missing == calc.targets.doctors \ calc.scraped IN
       \E query_ok \in BOOLEAN :
          calc' = IF missing = {} THEN [calc EXCEPT !.pc = "write"]
                  ELSE IF query_ok
                  THEN [calc EXCEPT
                          !.left = supplement_doctors(calc.h, missing),
                          !.supplemented = TRUE,
                          !.pc = "supplement"]
                  ELSE [calc EXCEPT !.pc = "done", !.failed = TRUE,
                                    !.rows = {}]
    /\ UNCHANGED <<gateVars, storeVars, semVars, jobVars, notifyVars, scanVars, batchVars, httpVars>>

\* Lines 347-366: one missing doctor.  The call of _fetch_doctor_slots is
\* made with the worker's own adapter; on an adapter without the method it
\* raises AttributeError, which the except of line 365 logs.
SupplementDoctor ==
    /\ calc.pc = "supplement"
    /\ calc.left # {}
    /\ \E doc \in calc.left, found \in BOOLEAN, due \in BOOLEAN :
          calc' = IF has_fetch_doctor_slots(calc.h)
                  THEN [calc EXCEPT
                          !.left = @ \ {doc},
                          !.fetched = @ \cup {doc},
                          !.rows = IF found THEN @ \cup {doc} ELSE @,
                          !.requests = @ \cup {Request("detail", doc)}
                             \cup (IF found /\ due
                                   THEN {Request("progress", doc)} ELSE {})]
                  ELSE [calc EXCEPT !.left = @ \ {doc}]
    /\ UNCHANGED <<gateVars, storeVars, semVars, jobVars, notifyVars, scanVars, batchVars, httpVars>>

EndSupplement ==
    /\ calc.pc = "supplement"
    /\ calc.left = {}
    /\ calc' = [calc EXCEPT !.pc = "write"]
    /\ UNCHANGED <<gateVars, storeVars, semVars, jobVars, notifyVars, scanVars, batchVars, httpVars>>

\* Lines 368-373: the batch insert of the rows, inside its own try/except.
WriteSnapshots ==
    /\ calc.pc = "write"
    /\ \E ok \in BOOLEAN :
          calc' = [calc EXCEPT !.written = IF ok THEN calc.rows ELSE {},
                               !.pc = "done"]
    /\ UNCHANGED <<gateVars, storeVars, semVars, jobVars, notifyVars, scanVars, batchVars, httpVars>>

(***************************************************************************)
(* SpecQueue: what HMMHScraper.fetch_clinic_progress derives from the      *)
(* ticket rows of a queue page.  A row is a ticket number and a status     *)
(* text; a status text is known by the markers it contains.                *)
(***************************************************************************)
MaxRows == 3

\* The markers the parser looks for in a status text.
Unseen == "not_yet_seen"
Waiting == "waiting"
InProgress == "in_progress"

\* Status texts by the markers they contain: seen, not yet seen, waiting,
\* in progress, and a text with both the waiting and the in-progress marker.
StatusTexts ==
    { {}, {Unseen}, {Waiting}, {InProgress}, {Waiting, InProgress} }

TicketRows == [number : 1..MaxRows, status : StatusTexts]

QueuePages == UNION {[1..n -> TicketRows] : n \in 0..MaxRows}

\* Lines 283-288: the status message of the page; "" when there is none.
PageStatuses == {"", "not_open"}

\* Lines 309-311: the waiting list built while the rows are read.
hmmh_waiting_list(rows) ==
    LET waits(r) == Unseen \in r.status \/ Waiting \in r.status
        picked == SelectSeq(rows, waits)
    IN  [i \in 1..Len(picked) |-> picked[i].number]

\* Lines 313-315: current_number after the loop over the rows; every row in
\* progress assigns it.
RECURSIVE in_progress_number(_, _, _)
in_progress_number(rows, i, cur) ==
    IF i > Len(rows) THEN cur
    ELSE in_progress_number(rows, i + 1,
                            IF InProgress \in rows[i].status
                            THEN rows[i].number ELSE cur)

\* A faulty variant: the largest number seen, as the comment of line 317
\* has it.
max_number_seen(rows, i) ==
    IF Len(rows) = 0 THEN None
    ELSE CHOOSE n \in {rows[k].number : k \in 1..Len(rows)} :
            \A k \in 1..Len(rows) : rows[k].number <= n

\* Lines 318-323: the rows in reverse, the first one not "not yet seen".
RECURSIVE last_called(_, _)
last_called(rows, i) ==
    IF i < 1 THEN None
    ELSE IF Unseen \notin rows[i].status THEN rows[i].number
    ELSE last_called(rows, i - 1)

\* Line 325: max(numbers) if numbers else 0.
RECURSIVE max_num(_, _)
max_num(rows, i) ==
    IF i > Len(rows) THEN 0
    ELSE Max(rows[i].number, max_num(rows, i + 1))

\* Lines 274-343 of fetch_clinic_progress, from the parsed rows on.
hmmh_progress(rows, status) ==
    LET in_progress == in_progress_number(rows, 1, None)
        current_number == IF in_progress = None /\ Len(rows) > 0
                          THEN last_called(rows, Len(rows))
                          ELSE in_progress
    IN  IF current_number = None /\ status = "" /\ Len(rows) = 0
        THEN None
        ELSE [current_number |-> IF Truthy(current_number)
                                 THEN current_number ELSE 0,
              total_quota |-> max_num(rows, 1),
              registered_count |-> Len(rows),
              status |-> status,
              waiting_list |-> hmmh_waiting_list(rows)]

QueueInit ==
    calc \in { [done |-> FALSE, out |-> None, rows |-> r, status |-> st] :
                 r \in QueuePages, st \in PageStatuses }

ParseQueuePage ==
    /\ ~calc.done
    /\ calc' = [calc EXCEPT !.done = TRUE,
                            !.out = hmmh_progress(calc.rows, calc.status)]
    /\ UNCHANGED <<gateVars, storeVars, semVars, jobVars, notifyVars, scanVars, batchVars, httpVars>>

\* The adapter returns; the value is dropped with its frame.
QueueReturn ==
    /\ calc.done
    /\ calc' = [calc EXCEPT !.done = FALSE, !.out = None]
    /\ UNCHANGED <<gateVars, storeVars, semVars, jobVars, notifyVars, scanVars, batchVars, httpVars>>

(***************************************************************************)
(* SpecCell: what CMUHScraper._fetch_doctor_slots makes of one cell of the *)
(* schedule table.  A cell is a run of date blocks; a block is known by    *)
(* its date as written (calendar, year, day), the headcount after the      *)
(* registered marker if there is one, and the parenthesized room numbers   *)
(* in their order, each with or without the room suffix.                   *)
(***************************************************************************)
MaxBlocks == 2

\* Dates as written in a cell: a three-digit ROC year or a four-digit AD
\* year, then month and day.
CellDates ==
    { [calendar |-> c.calendar, year |-> c.year, day |-> d] :
        c \in { [calendar |-> "ROC", year |-> 115],
                [calendar |-> "AD", year |-> 2026] },
        d \in {2, 23} }

\* "(15...)" and "(118...)", with or without the suffix.
Room(number, suffix) == [number |-> number, suffix |-> suffix]

RoomLists ==
    { <<>>, << Room(230, TRUE) >>, << Room(118, FALSE) >>,
      << Room(118, TRUE), Room(15, TRUE) >>,
      << Room(15, TRUE), Room(118, TRUE) >>,
      << Room(15, TRUE), Room(118, FALSE) >> }

DateBlocks == [date : CellDates, registered : {None, 58}, rooms : RoomLists]

Cells == UNION {[1..n -> DateBlocks] : n \in 1..MaxBlocks}

\* Line 205: the text the pattern of three digits, two digits and two
\* digits matches at a date; of a four-digit year it takes the last three.
date_match(d) ==
    [year_digits |-> 3,
     year |-> IF d.calendar = "AD" THEN d.year % 1000 ELSE d.year,
     day |-> d.day]

\* _parse_date: a four-digit year is an AD year, a three-digit year an ROC
\* year and 1911 is added.
parse_date(t) ==
    [year |-> IF t.year_digits = 4 THEN t.year ELSE t.year + 1911,
     day |-> t.day]

\* Lines 223-224: the first parenthesized number that carries the suffix;
\* the room is that number (kept with its suffix), or None.
RECURSIVE first_room(_, _)
first_room(rooms, i) ==
    IF i > Len(rooms) THEN None
    ELSE IF rooms[i].suffix THEN rooms[i].number
    ELSE first_room(rooms, i + 1)

\* Lines 213-241: the slot of one block.
block_slot(b) ==
    [session_date |-> parse_date(date_match(b.date)),
     registered |-> b.registered,
     clinic_room |-> first_room(b.rooms, 1)]

\* Lines 205-241: one slot for every date match of the cell.
cell_slots(cell) == [i \in 1..Len(cell) |-> block_slot(cell[i])]

CellInit ==
    calc \in { [done |-> FALSE, out |-> <<>>, cell |-> c] : c \in Cells }

ParseCell ==
    /\ ~calc.done
    /\ calc' = [calc EXCEPT !.done = TRUE, !.out = cell_slots(calc.cell)]
    /\ UNCHANGED <<gateVars, storeVars, semVars, jobVars, notifyVars, scanVars, batchVars, httpVars>>

\* The slots are handed to the caller.
CellReturn ==
    /\ calc.done
    /\ calc' = [calc EXCEPT !.done = FALSE, !.out = <<>>]
    /\ UNCHANGED <<gateVars, storeVars, semVars, jobVars, notifyVars, scanVars, batchVars, httpVars>>

(***************************************************************************)
(* SpecLatest: the snapshot _process_subscription evaluates.  The table    *)
(* appointment_snapshots holds the rows the scans wrote, in the order of   *)
(* scraped_at; a doctor row belongs to one department (the doctors table   *)
(* is keyed by hospital, doctor number and department), and the scans      *)
(* write a doctor's rows under that department.  A subscription is what    *)
(* create_subscription inserted: a doctor that exists, an optional         *)
(* department and an optional session type, neither compared with the      *)
(* doctor's; check_and_notify hands over the subscriptions dated today.    *)
(***************************************************************************)
MaxSnaps == 2

MaxSnapDay == 1

\* The session dates of the rows: the days up to today.
SnapDays == 0..MaxSnapDay

Today == MaxSnapDay

SnapshotRows ==
    { [doctor_id |-> doc, department_id |-> department_of(doc),
       session_date |-> d, session_type |-> t] :
        doc \in DoctorIds, d \in SnapDays, t \in SessionTypes }

\* The table by ascending scraped_at.
SnapshotTables == UNION {[1..n -> SnapshotRows] : n \in 0..MaxSnaps}

TodaySubscriptions ==
    [doctor_id : DoctorIds, department_id : DeptIds \cup {""},
     session_date : {Today}, session_type : SessionTypes \cup {""}]

NoSnapshot ==
    [doctor_id |-> "", department_id |-> "", session_date |-> 0,
     session_type |-> ""]

\* Lines 55-66: the filters of the query.
snapshot_matches(sub, row, tw_today) ==
    /\ row.doctor_id = sub.doctor_id
    /\ row.session_date = tw_today
    /\ sub.session_type # "" => row.session_type = sub.session_type

\* Lines 55-75: order("scraped_at", desc=True).limit(1); no row when the
\* result is empty.
fetch_snap(sub, table, tw_today) ==
    LET hits == {i \in 1..Len(table) : snapshot_matches(sub, table[i], tw_today)}
    IN  IF hits = {} THEN NoSnapshot
        ELSE table[CHOOSE i \in hits : \A j \in hits : j <= i]

LatestInit ==
    calc \in { [done |-> FALSE, out |-> NoSnapshot, sub |-> sub, table |-> t] :
                 sub \in TodaySubscriptions, t \in SnapshotTables }

FetchLatest ==
    /\ ~calc.done
    /\ calc' = [calc EXCEPT !.done = TRUE,
                            !.out = fetch_snap(calc.sub, calc.table, Today)]
    /\ UNCHANGED <<gateVars, storeVars, semVars, jobVars, notifyVars, scanVars, batchVars, httpVars>>

\* _process_subscription returns.
LatestReturn ==
    /\ calc.done
    /\ calc' = [calc EXCEPT !.done = FALSE, !.out = NoSnapshot]
    /\ UNCHANGED <<gateVars, storeVars, semVars, jobVars, notifyVars, scanVars, batchVars, httpVars>>

(***************************************************************************)
(* SpecSync: the morning sync's calls of _build_snapshot_row.  The job is  *)
(* started by its cron trigger at 08:00; for every snapshot of a tracked   *)
(* doctor dated today that has a clinic room it rebuilds a slot and calls  *)
(* the row builder with needs_progress=True.                               *)
(***************************************************************************)
MaxSyncLag == 2      \* minutes the job may be past 08:00 when it builds a row

SyncMinutes ==
    {d * MinutesPerDay + 8 * 60 + k : d \in {0, 1}, k \in 0..MaxSyncLag}

\* Stored snapshots of tracked doctors.
SyncSnapshots ==
    { [NullStored([doctor_id |-> "doc1", department_id |-> "dep1",
                   session_date |-> d, session_type |-> t,
                   clinic_room |-> room])
         EXCEPT !.total_quota = q, !.current_registered = r] :
        d \in {0, 1}, t \in SessionTypes \cup {"other"}, room \in {"101", ""},
        q \in {None, 50}, r \in {None, 40} }

MorningSyncCall ==
    /\ ~call.made
    /\ \E snap \in SyncSnapshots, m \in SyncMinutes, aware \in BOOLEAN,
          f \in FetchOutcomes :
         LET nowdt == now_tw(m, aware)
             slot == SlotOfSnapshot(snap, nowdt)
         IN  /\ snap.key.session_date = today_tw(nowdt)
             /\ snap.key.clinic_room # ""
             /\ call' = [made |-> TRUE, slot |-> slot, needs_progress |-> TRUE,
                         nowdt |-> nowdt, fetch |-> f,
                         res |-> build_snapshot_row(slot, snap.key.doctor_id,
                                                    snap.key.department_id,
                                                    TRUE, nowdt, f)]
    /\ UNCHANGED <<storeVars, semVars, jobVars, notifyVars, scanVars, batchVars, calcVars, httpVars>>

(***************************************************************************)
(* SpecScan: one scan cycle.  run_cmuh_master_data and                     *)
(* run_tracked_appointments create one scraper per hospital and gather one *)
(* worker per scraper; the tracked run then awaits check_and_notify.  A    *)
(* worker walks its departments, fetches each department's schedule (the   *)
(* adapter fetches every doctor's detail page and keeps the results that   *)
(* are lists), in a tracked run fetches the tracked doctors the schedules  *)
(* missed, writes the rows it collected in one batch insert and closes its *)
(* scraper.  The failures are the exceptions of the awaited calls inside   *)
(* the worker's try block; scraper.close() in the finally block and the    *)
(* get_supabase() singleton are taken not to raise.  A unit's rows are the *)
(* rows built from the slots its fetch returned.                           *)
(***************************************************************************)
ScanDepts == 2

scrapers == <<"CMUH", "CMUH_HS", "HMMH">>

Hospitals == {scrapers[k] : k \in 1..Len(scrapers)}

ScanKinds == {"master", "tracked"}

Departments == 1..ScanDepts

\* The doctor links of a department's schedule page.
doctor_links(d) == IF d = 1 THEN {1, 2} ELSE {1}

\* The doctors whose slots a department's fetch_schedule can return.
schedule_doctors(h, d) == IF parses_schedule(h) THEN doctor_links(d) ELSE {}

\* The tracked doctor no department schedule lists.
missing_doctors == {<<0, 1>>}

Units == {<<d, k>> : d \in Departments, k \in {1, 2}} \cup missing_doctors

\* fetch_schedule keeps the doctors' results that are lists and drops the
\* exceptions gather returned in their place.
gathered_slots(d, ok) == {<<d, k>> : k \in ok}

\* A faulty variant: the department loop is left after a failure.
after_dept_failure_break(d) == ScanDepts + 1

\* The department loop after a department's fetch raised: continue.
after_dept_failure(d) == d + 1

\* A faulty variant: the exception ends every worker of the cycle.
stopped_by_failure_all(h) == Hospitals

\* The workers an exception inside worker h's try block ends: the worker's
\* own except clause catches it.
stopped_by_failure(h) == {h}

\* A faulty variant: the wait ends with the first worker that returns.
gather_returns_first(w) == \E h \in Hospitals : w[h].pc = "done"

\* asyncio.gather returns when every worker has returned.
gather_returns(w) == \A h \in Hospitals : w[h].pc = "done"

NewWorker ==
    [pc |-> "init", dept |-> 1, rows |-> {}, tried |-> {},
     failed |-> FALSE, wrote |-> {}]

ScanInit ==
    /\ wk = [h \in Hospitals |-> NewWorker]
    /\ run \in {[kind |-> k, pc |-> "gather", checks |-> 0] : k \in ScanKinds}

ScanOff == wk = <<>> /\ run = <<>>

AfterDepartments(d) ==
    IF d <= ScanDepts THEN "dept"
    ELSE IF run.kind = "tracked" THEN "supplement" ELSE "write"

\* get_hospital_id and the queries before the department loop.
WorkerStart(h) ==
    /\ run.pc = "gather"
    /\ wk[h].pc = "init"
    /\ \E ok \in BOOLEAN :
          wk' = [wk EXCEPT ![h] =
                   IF ok THEN [@ EXCEPT !.pc = "dept"]
                   ELSE [@ EXCEPT !.pc = "close", !.failed = TRUE]]
    /\ UNCHANGED run
    /\ UNCHANGED <<gateVars, storeVars, semVars, jobVars, notifyVars, batchVars, calcVars, httpVars>>

\* One turn of the department loop: fetch_schedule raises, or returns the
\* slots of the doctors whose detail fetch succeeded.
FetchDepartment(h) ==
    /\ run.pc = "gather"
    /\ wk[h].pc = "dept"
    /\ LET d == wk[h].dept IN
       \E raised \in BOOLEAN, ok \in SUBSET schedule_doctors(h, d) :
          LET nxt == IF raised THEN after_dept_failure(d) ELSE d + 1
              got == IF raised THEN {} ELSE gathered_slots(d, ok)
          IN wk' = [wk EXCEPT ![h] =
                      [@ EXCEPT !.dept = nxt,
                                !.tried = @ \cup {d},
                                !.rows = @ \cup got,
                                !.pc = AfterDepartments(nxt)]]
    /\ UNCHANGED run
    /\ UNCHANGED <<gateVars, storeVars, semVars, jobVars, notifyVars, batchVars, calcVars, httpVars>>

\* The supplement of a tracked run: _fetch_doctor_slots for a tracked doctor
\* no schedule listed, inside its own try/except; on an adapter without
\* the method the call raises AttributeError, which the except logs.
Supplement(h) ==
    /\ run.pc = "gather"
    /\ wk[h].pc = "supplement"
    /\ \E ok \in IF has_fetch_doctor_slots(h) THEN BOOLEAN ELSE {FALSE} :
          wk' = [wk EXCEPT ![h] =
                   [@ EXCEPT !.rows = IF ok THEN @ \cup missing_doctors ELSE @,
                             !.pc = "write"]]
    /\ UNCHANGED run
    /\ UNCHANGED <<gateVars, storeVars, semVars, jobVars, notifyVars, batchVars, calcVars, httpVars>>

\* An awaited call of the try block outside the inner handlers raises
\* (upsert_department, the doctors query of a department, the supplement's
\* use of a failed query): the outer except logs it and the rows collected
\* so far are dropped with the worker's frame.
WorkerFatal(h) ==
    /\ run.pc = "gather"
    /\ wk[h].pc \in {"dept", "supplement"}
    /\ wk' = [g \in Hospitals |->
                IF g \in stopped_by_failure(h) /\ wk[g].pc # "done"
                THEN [wk[g] EXCEPT !.pc = "close", !.failed = TRUE,
                                   !.rows = {}]
                ELSE wk[g]]
    /\ UNCHANGED run
    /\ UNCHANGED <<gateVars, storeVars, semVars, jobVars, notifyVars, batchVars, calcVars, httpVars>>

\* The batch insert of the collected rows, inside its own try/except.
WriteRows(h) ==
    /\ run.pc = "gather"
    /\ wk[h].pc = "write"
    /\ \E ok \in BOOLEAN :
          wk' = [wk EXCEPT ![h] =
                   [@ EXCEPT !.wrote = IF ok THEN wk[h].rows ELSE {},
                             !.failed = IF wk[h].rows = {} \/ ok
                                        THEN @ ELSE TRUE,
                             !.pc = "close"]]
    /\ UNCHANGED run
    /\ UNCHANGED <<gateVars, storeVars, semVars, jobVars, notifyVars, batchVars, calcVars, httpVars>>

\* finally: await scraper.close(); the worker returns.
WorkerClose(h) ==
    /\ run.pc = "gather"
    /\ wk[h].pc = "close"
    /\ wk' = [wk EXCEPT ![h] = [@ EXCEPT !.pc = "done"]]
    /\ UNCHANGED run
    /\ UNCHANGED <<gateVars, storeVars, semVars, jobVars, notifyVars, batchVars, calcVars, httpVars>>

\* The await of asyncio.gather returns.
GatherReturn ==
    /\ run.pc = "gather"
    /\ gather_returns(wk)
    /\ run' = [run EXCEPT !.pc = IF run.kind = "tracked"
                                 THEN "notify" ELSE "done"]
    /\ UNCHANGED wk
    /\ UNCHANGED <<gateVars, storeVars, semVars, jobVars, notifyVars, batchVars, calcVars, httpVars>>

\* await check_and_notify() of the tracked run.
NotificationCheck ==
    /\ run.pc = "notify"
    /\ run' = [run EXCEPT !.pc = "done", !.checks = @ + 1]
    /\ UNCHANGED wk
    /\ UNCHANGED <<gateVars, storeVars, semVars, jobVars, notifyVars, batchVars, calcVars, httpVars>>

WorkerStartAny == \E h \in Hospitals : WorkerStart(h)
FetchDepartmentAny == \E h \in Hospitals : FetchDepartment(h)
SupplementAny == \E h \in Hospitals : Supplement(h)
WorkerFatalAny == \E h \in Hospitals : WorkerFatal(h)
WriteRowsAny == \E h \in Hospitals : WriteRows(h)
WorkerCloseAny == \E h \in Hospitals : WorkerClose(h)

(***************************************************************************)
(* SpecBatch: one call of batch_insert_snapshots, chunk by chunk, with     *)
(* an upsert that may raise, and the caller's handling of the exception.   *)
(* The rows are known by their number; a chunk by the index of its first   *)
(* row.                                                                    *)
(***************************************************************************)
MaxChunks == 3

\* Row counts around the chunk boundaries.
BatchSizes ==
    {n \in 1..(MaxChunks * chunk_size) :
        \E c \in 0..MaxChunks, e \in {0 - 1, 0, 1} : n = c * chunk_size + e}

\* range(0, len(rows), chunk_size), counted from 1 as batch_from counts.
chunk_starts(n) ==
    {i \in 1..n : \E c \in 0..MaxChunks : i = c * chunk_size + 1}

BatchIdle == [pc |-> "idle", caller |-> "none", n |-> 0, i |-> 1,
              attempted |-> {}]

BatchInit == wr = BatchIdle

BatchOff == wr = <<>>

\* A job calls batch_insert_snapshots with the rows it collected.
BatchCall ==
    /\ wr.pc = "idle"
    /\ \E c \in JobKinds, n \in BatchSizes :
          wr' = [pc |-> "loop", caller |-> c, n |-> n, i |-> 1,
                 attempted |-> {}]
    /\ UNCHANGED <<gateVars, storeVars, semVars, jobVars, notifyVars, scanVars, calcVars, httpVars>>

\* One turn of the chunk loop: the upsert of rows[i:i+chunk_size] returns,
\* or raises and the exception leaves the loop and the function.
UpsertChunk ==
    /\ wr.pc = "loop"
    /\ wr.i <= wr.n
    /\ \E ok \in BOOLEAN :
          wr' = [wr EXCEPT !.attempted = @ \cup {wr.i},
                           !.i = IF ok THEN @ + chunk_size ELSE @,
                           !.pc = IF ok THEN "loop" ELSE "raised"]
    /\ UNCHANGED <<gateVars, storeVars, semVars, jobVars, notifyVars, scanVars, calcVars, httpVars>>

\* The loop is exhausted and the function returns.
BatchReturn ==
    /\ wr.pc = "loop"
    /\ wr.i > wr.n
    /\ wr' = [wr EXCEPT !.pc = "returned"]
    /\ UNCHANGED <<gateVars, storeVars, semVars, jobVars, notifyVars, scanVars, calcVars, httpVars>>

\* The caller's except clause logs the exception: the try/except around
\* the call in the two scan workers, the outer except of the morning sync.
CallerExcept ==
    /\ wr.pc = "raised"
    /\ wr' = [wr EXCEPT !.pc = "caught"]
    /\ UNCHANGED <<gateVars, storeVars, semVars, jobVars, notifyVars, scanVars, calcVars, httpVars>>

\* The job runs to its end; a later job writes again.
JobEnd ==
    /\ wr.pc \in {"returned", "caught"}
    /\ wr' = BatchIdle
    /\ UNCHANGED <<gateVars, storeVars, semVars, jobVars, notifyVars, scanVars, calcVars, httpVars>>

(***************************************************************************)
(* The specifications.                                                     *)
(***************************************************************************)
InitGate == GateInit /\ StoreOff /\ SemOff /\ JobsOff /\ NotifyOff /\ ScanOff /\ BatchOff /\ CalcOff /\ HttpOff
NextGate == BuildRow \/ BuildRowReturn
SpecGate == InitGate /\ [][NextGate]_vars

InitStore == GateOff /\ StoreInit /\ SemOff /\ JobsOff /\ NotifyOff /\ ScanOff /\ BatchOff /\ CalcOff /\ HttpOff
NextStore ==
    \/ Tick
    \/ FullScanBuild \/ FullScanWrite
    \/ TrackedScanBuild \/ TrackedScanWrite
    \/ MorningSyncBuild \/ MorningSyncWrite
SpecStore == InitStore /\ [][NextStore]_vars

InitSem == GateOff /\ StoreOff /\ SemInit /\ JobsOff /\ NotifyOff /\ ScanOff /\ BatchOff /\ CalcOff /\ HttpOff
NextSem == FetchScheduleStart \/ AcquireAny \/ ReleaseAny \/ FetchScheduleReturn
SpecSem == InitSem /\ [][NextSem]_vars

InitJobs == GateOff /\ StoreOff /\ SemOff /\ JobsInit /\ NotifyOff /\ ScanOff /\ BatchOff /\ CalcOff /\ HttpOff
NextJobs ==
    \/ CronStartAny \/ CronSkipAny \/ CronFinishAny
    \/ ManualTriggerAny \/ ManualFinishAny
SpecJobs == InitJobs /\ [][NextJobs]_vars

InitNotify == GateOff /\ StoreOff /\ SemOff /\ JobsOff /\ NotifyInit /\ ScanOff /\ BatchOff /\ CalcOff /\ HttpOff
NextNotify ==
    \/ StartCycleAny \/ ProcessSubAny \/ LogPendingAny \/ SendAny
    \/ LogFinalAny \/ MarkNotifiedAny \/ FinishCycleAny
SpecNotify == InitNotify /\ [][NextNotify]_vars

NextNear ==
    \/ StartCycle(0) \/ ProcessNear \/ LogPendingJob \/ SendJob
    \/ LogFinalJob \/ MarkNotified(0) \/ FinishCycle(0)
SpecNear == InitNotify /\ [][NextNear]_vars

InitRemaining == GateOff /\ StoreOff /\ SemOff /\ JobsOff /\ NotifyOff /\ ScanOff /\ BatchOff /\ RemainingInit /\ HttpOff
NextRemaining == ComputeRemaining \/ RemainingReturn
SpecRemaining == InitRemaining /\ [][NextRemaining]_vars

InitEta == GateOff /\ StoreOff /\ SemOff /\ JobsOff /\ NotifyOff /\ ScanOff /\ BatchOff /\ EtaInit /\ HttpOff
NextEta == ComputeEta \/ EtaReturn
SpecEta == InitEta /\ [][NextEta]_vars

InitHttp == GateOff /\ StoreOff /\ SemOff /\ JobsOff /\ NotifyOff /\ ScanOff /\ BatchOff /\ CalcOff /\ HttpInit
NextHttp ==
    CallOperation \/ SendRequest \/ Backoff \/ ParseResponse \/ OperationReturn
SpecHttp == InitHttp /\ [][NextHttp]_vars

InitTarget == GateOff /\ StoreOff /\ SemOff /\ JobsOff /\ NotifyOff /\ ScanOff /\ BatchOff /\ HttpOff /\ TargetInit
NextTarget == ComputeTarget \/ TargetReturn
SpecTarget == InitTarget /\ [][NextTarget]_vars

InitTracked == GateOff /\ StoreOff /\ SemOff /\ JobsOff /\ NotifyOff /\ ScanOff /\ BatchOff /\ HttpOff /\ TrackedInit
NextTracked == ResolveTracked \/ TrackedReturn
SpecTracked == InitTracked /\ [][NextTracked]_vars

InitSupplement == GateOff /\ StoreOff /\ SemOff /\ JobsOff /\ NotifyOff /\ ScanOff /\ BatchOff /\ HttpOff /\ SupplementInit
NextSupplement ==
    \/ ResolveWorker \/ ScrapeDepartment \/ StartSupplement
    \/ SupplementDoctor \/ EndSupplement \/ WriteSnapshots
SpecSupplement == InitSupplement /\ [][NextSupplement]_vars

InitQueue == GateOff /\ StoreOff /\ SemOff /\ JobsOff /\ NotifyOff /\ ScanOff /\ BatchOff /\ HttpOff /\ QueueInit
NextQueue == ParseQueuePage \/ QueueReturn
SpecQueue == InitQueue /\ [][NextQueue]_vars

InitCell == GateOff /\ StoreOff /\ SemOff /\ JobsOff /\ NotifyOff /\ ScanOff /\ BatchOff /\ HttpOff /\ CellInit
NextCell == ParseCell \/ CellReturn
SpecCell == InitCell /\ [][NextCell]_vars

InitLatest == GateOff /\ StoreOff /\ SemOff /\ JobsOff /\ NotifyOff /\ ScanOff /\ BatchOff /\ HttpOff /\ LatestInit
NextLatest == FetchLatest \/ LatestReturn
SpecLatest == InitLatest /\ [][NextLatest]_vars

InitSync == GateInit /\ StoreOff /\ SemOff /\ JobsOff /\ NotifyOff /\ ScanOff /\ BatchOff /\ CalcOff /\ HttpOff
NextSync == MorningSyncCall \/ BuildRowReturn
SpecSync == InitSync /\ [][NextSync]_vars

InitScan == GateOff /\ StoreOff /\ SemOff /\ JobsOff /\ NotifyOff /\ ScanInit /\ BatchOff /\ CalcOff /\ HttpOff
NextScan ==
    \/ WorkerStartAny \/ FetchDepartmentAny \/ SupplementAny
    \/ WorkerFatalAny \/ WriteRowsAny \/ WorkerCloseAny
    \/ GatherReturn \/ NotificationCheck
SpecScan == InitScan /\ [][NextScan]_vars

\* Every worker is a task of the event loop and every await of the model
\* returns or raises, so a worker that can step eventually steps.
FairSpecScan ==
    /\ SpecScan
    /\ \A h \in Hospitals :
          WF_vars(WorkerStart(h) \/ FetchDepartment(h) \/ Supplement(h)
                  \/ WriteRows(h) \/ WorkerClose(h))
    /\ WF_vars(GatherReturn)
    /\ WF_vars(NotificationCheck)

InitBatch == GateOff /\ StoreOff /\ SemOff /\ JobsOff /\ NotifyOff /\ ScanOff /\ BatchInit /\ CalcOff /\ HttpOff
NextBatch ==
    BatchCall \/ UpsertChunk \/ BatchReturn \/ CallerExcept \/ JobEnd
SpecBatch == InitBatch /\ [][NextBatch]_vars

(***************************************************************************)
(* Properties.                                                             *)
(***************************************************************************)

\* C1 (SpecNotify): for every subscription and every threshold at most one
\* alert dispatch happens on the session day, over every interleaving of the
\* scheduled cycle with an admin-triggered one.  The code does not keep this:
\* a cycle tests the flags it read when it started, and the flag is written
\* only after the sends of the other cycle were gathered.
C1_AtMostOneDispatch ==
    \A s \in DOMAIN dispatched : \A t \in DOMAIN dispatched[s] :
        dispatched[s][t] <= 1

\* C2 (SpecNotify): a cycle that read a threshold's notified flag as true
\* neither dispatches an alert for that threshold nor writes or changes a
\* notification log entry for it, whatever the snapshots it meets.
C2_NoDispatchAfterNotified ==
    [][\A r \in Runs : \A s \in SubSet : \A t \in ThresholdSet :
         (cyc[r].pc # "idle" /\ cyc[r].read[s][t]) =>
             /\ ~(cyc'[r].pc = "alert" /\ cyc'[r].proc.sub = s /\ cyc'[r].thr = t)
             /\ { e \in logs' : e.run = r /\ e.sub = s /\ e.threshold = t }
                  = { e \in logs : e.run = r /\ e.sub = s /\ e.threshold = t }]_vars

\* C2 witness: threshold 20 of s1 was dispatched once and read as notified by
\* a cycle that meets remaining-ahead <= 10 and dispatches threshold 10.
C2_NotifiedThresholdSkipped ==
    \E r \in DOMAIN cyc :
        /\ cyc[r].pc = "alert"
        /\ cyc[r].proc.sub = "s1"
        /\ cyc[r].thr = 10
        /\ cyc[r].proc.remaining <= 10
        /\ cfg.subs["s1"].notify_at[20]
        /\ cyc[r].read["s1"][20]
        /\ dispatched["s1"][20] = 1

\* The first threshold in the order 20, 10, 5 that is enabled, not notified
\* in the sub dict and reached by remaining; None when there is none.
FirstReached(sub, remaining) ==
    LET reached == { t \in {20, 10, 5} :
                       sub.notify_at[t] /\ ~sub.notified[t] /\ remaining <= t }
    IN  IF reached = {} THEN None
        ELSE CHOOSE t \in reached : \A u \in reached : u <= t

\* C3 (SpecNotify): one processing of a subscription hands at most one
\* threshold to _send_alerts, the first in the order 20, 10, 5 that is
\* enabled, not notified in the sub dict and has remaining-ahead <= threshold;
\* with remaining-ahead 4 and the three thresholds enabled and unnotified it
\* is threshold 20, and the processing sets notified_20 and no other flag.
C3_FirstThresholdOnly ==
    /\ [](\A r \in DOMAIN cyc :
            cyc[r].pc = "alert" =>
              LET sub == SubDict(r, cyc[r].proc.sub)
              IN  /\ Len(cyc[r].proc.tasks) = 1
                  /\ cyc[r].thr = FirstReached(sub, cyc[r].proc.remaining)
                  /\ (/\ cyc[r].proc.remaining = 4
                      /\ \A t \in ThresholdSet : sub.notify_at[t] /\ ~sub.notified[t])
                     => (cyc[r].thr = 20 /\ cyc[r].proc.marks = {}))
    /\ [][\A r \in Runs :
            (cyc[r].pc = "alert" /\ cyc'[r].pc # "alert") =>
              \A s \in SubSet : \A t \in ThresholdSet :
                 subs'[s].notified[t] # subs[s].notified[t] =>
                    (s = cyc[r].proc.sub /\ t = cyc[r].thr)]_vars

\* C3 witness: remaining-ahead 4, three thresholds enabled and unnotified,
\* threshold 20 under dispatch.
C3_RemainingFourDispatchesTwenty ==
    \E r \in DOMAIN cyc :
        /\ cyc[r].pc = "alert"
        /\ cyc[r].proc.remaining = 4
        /\ \A t \in ThresholdSet :
              cfg.subs[cyc[r].proc.sub].notify_at[t] /\ ~cyc[r].read[cyc[r].proc.sub][t]
        /\ cyc[r].thr = 20

\* C9 (SpecSem): during one department schedule fetch at most 5 per-doctor
\* detail requests are in flight at the same time.
C9_DetailRequestsAtMostFive == Cardinality(InFlight) <= 5

\* C9 witness: 5 requests in flight, a sixth doctor waiting on the semaphore.
C9_FiveInFlightOneWaits ==
    /\ Cardinality(InFlight) = 5
    /\ sem = 0
    /\ \E d \in DOMAIN docPc : docPc[d] = "waiting"

\* C10 (SpecJobs): at no time do two runs of the same job execute.  The
\* code does not keep this: the trigger hooks create a task of the job's
\* function whether or not a run of it is in progress.
C10_OneRunPerJob ==
    \A j \in DOMAIN cronRun :
        cronRun[j] + (IF j \in DOMAIN manualRun THEN manualRun[j] ELSE 0) <= 1

\* The stored row of a key, in a table that holds one.
StoredRow(table, key) == table[CHOOSE i \in 1..Len(table) : table[i].key = key]

HasKey(table, key) == \E i \in 1..Len(table) : table[i].key = key

C5_OneRowPerKeyLatestValues ==
    /\ [](/\ \A i, j \in 1..Len(store) :
               store[i].key = store[j].key => i = j
          /\ { store[i].key : i \in 1..Len(store) } = written)
    /\ [][\A j \in JobKinds :
            (pending[j].active /\ ~pending'[j].active) =>
              \A k \in 1..Len(pending[j].rows) :
                 LET r == pending[j].rows[k]
                 IN  /\ HasKey(store', r.key)
                     /\ StoredRow(store', r.key).current_registered
                          = r.current_registered
                     /\ StoredRow(store', r.key).is_full = r.is_full
                     /\ "current_number" \in r.has =>
                          StoredRow(store', r.key).current_number = r.current_number
                     /\ "total_quota" \in r.has =>
                          StoredRow(store', r.key).total_quota = r.total_quota]_vars

\* C5 witness: a key written by a scan that got the ticket table (current 26,
\* quota 28) and written again by one that got the call number 25 alone: one
\* row, the later call number, the quota of the earlier write.
C5_SameSlotWrittenTwice ==
    /\ Len(store) = 1
    /\ store[1].current_number = 25
    /\ store[1].total_quota = 28

\* Minute of the day of a clock value.
TimeOfDay(nowdt) == nowdt.min % MinutesPerDay

\* A call of the row builder for a tracked slot that has a clinic room and a
\* session type of the gate.
TrackedCall ==
    /\ call.made
    /\ call.needs_progress
    /\ call.slot.clinic_room # ""
    /\ call.slot.session_type \in SessionTypes

\* C6 (SpecGate): for a tracked morning session dated today no live fetch is
\* attempted at 08:00, and one is attempted at 08:30 and at every later time
\* of the window.  The code does not keep this: with the clock of now_tw()
\* the comparison with the session start raises and nothing is fetched at any
\* time, and with a naive clock the gate is open at 08:00.
C6_MorningGateOpensAtHalfPastEight ==
    (/\ TrackedCall
     /\ call.slot.session_type = "AM"
     /\ call.slot.session_date = today_tw(call.nowdt))
    => /\ TimeOfDay(call.nowdt) = 8 * 60 => ~call.res.fetched
       /\ (TimeOfDay(call.nowdt) >= 8 * 60 + 30 /\ TimeOfDay(call.nowdt) < 16 * 60)
            => call.res.fetched

\* C7 (SpecGate): for a tracked slot with a clinic room a live fetch is
\* attempted exactly at the times within the 8 hours that follow the session
\* start (08:00, 13:30, 18:00 of the session date).  The code does not keep
\* this: it fetches at no time with the clock of now_tw(), and with a naive
\* clock an evening session is not fetched after midnight.
C7_FetchExactlyInWindow ==
    TrackedCall =>
        LET start == call.slot.session_date * MinutesPerDay
                       + session_start_times(call.slot.session_type)
        IN  call.res.fetched
              <=> (call.nowdt.min >= start /\ call.nowdt.min < start + 8 * 60)

UsableChannels(s) ==
    { c \in Channels :
        \/ c = "email" /\ cfg.subs[s].notify_email /\ cfg.subs[s].email # ""
        \/ c = "line" /\ cfg.subs[s].notify_line /\ cfg.subs[s].line_user_id # "" }

\* C11 (SpecNotify): _send_alerts sets the threshold's notified flag exactly
\* when a send was attempted on at least one channel that is enabled and has
\* a recipient, whether the sends succeeded or failed; called for a
\* subscription without a usable channel it starts no send, leaves the flag
\* as it is and writes no log entry.  (The update of the flag is taken to
\* succeed.)
C11_FlagIffSendAttempted ==
    [][\A r \in Runs :
         /\ (cyc[r].pc = "alert" /\ cyc'[r].pc # "alert") =>
              /\ subs'[cyc[r].proc.sub].notified[cyc[r].thr]
              /\ \E c \in Channels : cyc[r].chan[c] = "done"
              /\ \A c \in Channels :
                    cyc[r].chan[c] # "off" => c \in UsableChannels(cyc[r].proc.sub)
         /\ (cyc[r].pc = "loop" /\ cyc'[r].pc = "alert") =>
              UsableChannels(cyc'[r].proc.sub) # {}
         /\ (/\ cyc[r].pc = "loop" /\ cyc'[r].pc = "loop"
             /\ cyc'[r].idx = cyc[r].idx + 1
             /\ cyc'[r].proc.tasks # <<>>) =>
              /\ UsableChannels(cyc'[r].proc.sub) = {}
              /\ subs' = subs
              /\ logs' = logs]_vars

\* C11 witness: the mail server fails, the send for threshold 5 of s1 was
\* attempted and logged as failed, and notified_5 is set.
C11_FlagSetAfterFailedSend ==
    /\ cfg # <<>>
    /\ cfg.transport["email"] = "sent_failed"
    /\ subs["s1"].notified[5]
    /\ \E r \in Runs : LogEntry(r, "s1", 5, "email", "failed") \in logs

\* C12 (SpecNotify): no transport is invoked for a channel send without a
\* log entry for that send already stored.  The code does not keep this: when
\* the insert into notification_logs raises, _send_and_log logs the error and
\* awaits the transport all the same.
C12_LoggedBeforeTransport ==
    \A r \in DOMAIN cyc : \A c \in Channels :
        cyc[r].chan[c] \in {"sent_ok", "sent_failed", "done"} =>
            \E e \in logs : /\ e.run = r
                            /\ e.sub = cyc[r].proc.sub
                            /\ e.threshold = cyc[r].thr
                            /\ e.channel = c

\* C16 (SpecNotify): a channel send that fails or raises neither keeps the
\* other channel's send of the same alert from being carried out and logged
\* nor ends the cycle: _send_alerts returns only when every usable channel's
\* send is done and its log entry holds the outcome, and check_and_notify
\* returns only when every subscription it read has been processed.
C16_SendFailureIsolated ==
    [][\A r \in Runs :
         /\ (cyc[r].pc = "alert" /\ cyc'[r].pc # "alert") =>
              /\ cyc'[r].pc = "loop"
              /\ cyc'[r].idx = cyc[r].idx + 1
              /\ \A c \in UsableChannels(cyc[r].proc.sub) :
                    /\ cyc[r].chan[c] = "done"
                    /\ cfg.log_insert =>
                         LogEntry(r, cyc[r].proc.sub, cyc[r].thr, c,
                                  IF cfg.transport[c] = "sent_ok"
                                  THEN "success" ELSE "failed") \in logs
         /\ (cyc[r].pc # "idle" /\ cyc'[r].pc = "idle") =>
              /\ cyc[r].pc = "loop"
              /\ cyc[r].idx = Len(cyc[r].list) + 1
              /\ cyc[r].list = SelectSeq(SubIds, LAMBDA s : cfg.subs[s].is_active)]_vars

\* C16 witness: in one cycle the LINE send of an alert of s1 raised, the mail
\* send of the same alert was delivered and logged, and s2, which comes after
\* s1, is under dispatch.
C16_NextSubscriptionAfterRaise ==
    \E r \in DOMAIN cyc : \E t \in ThresholdSet :
        /\ cfg.transport["line"] = "raise"
        /\ cyc[r].pc = "alert"
        /\ cyc[r].proc.sub = "s2"
        /\ ~cyc[r].read["s1"][t]
        /\ subs["s1"].notified[t]
        /\ dispatched["s1"][t] = 1
        /\ LogEntry(r, "s1", t, "line", "failed") \in logs
        /\ LogEntry(r, "s1", t, "email", "success") \in logs

\* C13: in a hospital's cycle a department whose schedule fetch raised and
\* a doctor whose detail fetch failed are skipped: a worker that ended
\* without a fatal error has fetched every department, and the rows of
\* the units that succeeded are the rows it wrote.
C13_FailingUnitSkipped ==
    \A h \in Hospitals :
        (wk # <<>> /\ wk[h].pc = "done" /\ ~wk[h].failed)
            => /\ wk[h].tried = Departments
               /\ wk[h].wrote = wk[h].rows

\* A worker lost the first doctor of department 1 and the whole of
\* department 2, and wrote the row of the second doctor of department 1.
C13_RestWrittenAfterFailures ==
    /\ wk # <<>>
    /\ run.kind = "master"
    /\ wk["CMUH"].pc = "done"
    /\ wk["CMUH"].tried = Departments
    /\ wk["CMUH"].wrote = {<<1, 2>>}

\* C15: when the upsert of one batch fails the remaining batches of the
\* same write are still attempted and the job is not crashed: once the
\* write is over every chunk of the rows has been attempted.
C15_RemainingBatchesAttempted ==
    (wr # <<>> /\ wr.pc \in {"returned", "caught"})
        => wr.attempted = chunk_starts(wr.n)

\* C14: a failure at any step of one hospital's worker does not stop the
\* other hospitals' workers: a step of one worker, a failing one included,
\* leaves every other worker as it was, and every worker runs to its end,
\* where a worker that did not fail itself has written its rows.
C14_WorkersIndependent ==
    /\ [][\A g, h \in Hospitals :
             (g # h /\ wk'[g] # wk[g]) => wk'[h] = wk[h]]_vars
    /\ <>(\A h \in Hospitals :
             /\ wk[h].pc = "done"
             /\ ~wk[h].failed => wk[h].wrote = wk[h].rows)

\* One worker ended on a failure and another one wrote two rows.
C14_OtherWorkerWroteAfterFailure ==
    /\ wk # <<>>
    /\ wk["HMMH"].pc = "done" /\ wk["HMMH"].failed
    /\ wk["HMMH"].wrote = {}
    /\ wk["CMUH"].pc = "done" /\ ~wk["CMUH"].failed
    /\ Cardinality(wk["CMUH"].wrote) = 2

\* C17: in a tracked-scan cycle the notification check starts only after
\* every hospital's worker has finished, its write included, and it runs
\* exactly once in the cycle.
C17_NotifyAfterAllWorkers ==
    run # <<>> =>
        /\ (run.pc = "notify" \/ run.checks > 0)
              => \A h \in Hospitals : wk[h].pc = "done"
        /\ run.checks <= 1
        /\ (run.kind = "tracked" /\ run.pc = "done") => run.checks = 1

\* A tracked cycle is over: the check has run once, after a worker wrote
\* rows and another worker ended on a failure.
C17_CheckRanAfterWrites ==
    /\ run # <<>>
    /\ run.kind = "tracked" /\ run.pc = "done" /\ run.checks = 1
    /\ wk["CMUH"].wrote # {}
    /\ wk["CMUH_HS"].failed

\* C18 (SpecSync): the morning sync attempts a live fetch for the slot of
\* every tracked snapshot dated today, whatever its session type, without
\* the per-session time gate.  The code does not keep this: the sync calls
\* the row builder, which applies the gate, so at 08:00 an afternoon or an
\* evening slot is not fetched, and with the clock of now_tw() no slot is.
C18_MorningSyncFetchesEverySession ==
    (/\ call.made
     /\ call.needs_progress
     /\ call.slot.clinic_room # ""
     /\ call.slot.session_type \in SessionTypes
     /\ call.slot.session_date = today_tw(call.nowdt))
    => call.res.fetched

\* C19 (SpecRemaining): remaining-ahead is 0 when the current number exceeds
\* the target; otherwise, with queue details, the number of entries whose
\* ticket number is strictly between current and target and whose status is
\* not completed, whatever the waiting list; else, with a waiting list, the
\* number of its entries below the target; else max(0, target - current).
C19_RemainingAheadThreeTiers ==
    (calc # <<>> /\ calc.done) =>
        LET dt == calc.snap.clinic_queue_details
            wl == calc.snap.waiting_list
            c == calc.current
            t == calc.target
        IN  calc.out =
              IF c > t THEN 0
              ELSE IF Len(dt) > 0
              THEN Cardinality({i \in DOMAIN dt :
                                  /\ c < dt[i].number
                                  /\ dt[i].number < t
                                  /\ dt[i].status # "done"})
              ELSE IF Len(wl) > 0
              THEN Cardinality({i \in DOMAIN wl : wl[i] < t})
              ELSE IF t > c THEN t - c ELSE 0

\* Current 2, target 7, details with tickets 3, 5 and 6 waiting and 4
\* completed, waiting list with two entries below 7: the result is 3.
C19_DetailsUsedNotWaitingList ==
    /\ calc # <<>> /\ calc.done
    /\ calc.current = 2 /\ calc.target = 7
    /\ Len(calc.snap.clinic_queue_details) = 6
    /\ calc.snap.waiting_list = <<2, 4, 7, 8>>
    /\ calc.out = 3

\* A finished call of calculate_eta for a session dated today or later with
\* a valid session type.
EtaCall ==
    /\ calc # <<>> /\ calc.done
    /\ calc.date.text = "date"
    /\ calc.date.day >= calc.nowdt \div MinutesPerDay
    /\ calc.session_type \in SessionTypes

\* The session start as a time of the clock: 08:30, 13:30 or 18:00 of the
\* session date.
EtaSessionStart ==
    calc.date.day * MinutesPerDay
    + (IF calc.session_type = "AM" THEN 510
       ELSE IF calc.session_type = "PM" THEN 810 ELSE 1080)

EtaPace == IF calc.session_type = "EVE" THEN 3 ELSE 5

\* People ahead as the claim counts them, for a target g or none.
EtaPeopleAhead(given) ==
    LET wl == calc.waiting_list
        g == calc.target
        c == calc.current
    IN  IF given
        THEN IF Len(wl) > 0 THEN Cardinality({i \in DOMAIN wl : wl[i] < g})
             ELSE IF c # None THEN (IF g > c THEN g - c ELSE 0)
             ELSE (IF g > 1 THEN g - 1 ELSE 0)
        ELSE IF calc.registered > Len(wl)
             THEN calc.registered - Len(wl) ELSE 0

\* The clock time max(now, session start) + ahead * pace.
EtaClockTime(given) ==
    LET base == IF calc.nowdt > EtaSessionStart
                THEN calc.nowdt ELSE EtaSessionStart
        at == base + EtaPeopleAhead(given) * EtaPace
    IN  [kind |-> "time", hh |-> (at \div 60) % 24, mm |-> at % 60]

\* The target has been called already: the current number is known and
\* above the target, and the target is not in the waiting list.
EtaTargetPassed ==
    /\ calc.target # None /\ calc.target # 0
    /\ calc.current # None
    /\ calc.current > calc.target
    /\ \A i \in DOMAIN calc.waiting_list : calc.waiting_list[i] # calc.target

C21_PastSessionEnded ==
    (/\ calc # <<>> /\ calc.done
     /\ calc.date.text = "date"
     /\ calc.date.day < calc.nowdt \div MinutesPerDay)
    => calc.out = EtaEnded

\* C22 (SpecHttp): a request is attempted 3 times before its failure
\* reaches the caller of the operation, and never more than 3 times.  The
\* code does not keep this: the per-doctor detail request of the CMUH
\* adapter is sent once.
C22_ThreeAttemptsBeforeFailure ==
    req # <<>> =>
        /\ req.attempts <= 3
        /\ (req.pc = "done" /\ req.failure = "transport") => req.attempts = 3

\* C23 (SpecHttp): an operation whose request or parsing failed hands its
\* caller a failure, never an empty slot list or an absent progress.  The
\* code does not keep this: _fetch_doctor_slots returns [] and
\* fetch_clinic_progress returns None when the request failed.
C23_FailureReachesCaller ==
    (req # <<>> /\ req.pc = "done" /\ req.failure # "none")
        => req.result = "raise"

\* C24 (SpecNotify): when the current number is greater than the target,
\* processing a subscription dispatches no alert, and every enabled
\* threshold of the subscription has its notified flag set when the
\* processing is over.
C24_PassedNumberMarkedNotSent ==
    [][\A r \in Runs :
         (/\ cyc'[r].proc # cyc[r].proc
          /\ cyc'[r].proc.sub # ""
          /\ cyc'[r].proc.current # None
          /\ cyc'[r].proc.current > cyc'[r].proc.target) =>
            /\ cyc'[r].pc = "loop"
            /\ dispatched' = dispatched
            /\ logs' = logs
            /\ \A t \in ThresholdSet :
                  cfg.subs[cyc'[r].proc.sub].notify_at[t]
                     => subs'[cyc'[r].proc.sub].notified[t]]_vars

\* The number of s1 has passed (current 31, target 30): the three flags
\* were set in that processing and nothing was dispatched for s1.
C24_ThreeFlagsSetNothingSent ==
    /\ cyc # <<>>
    /\ \E r \in Runs :
          /\ cyc[r].proc.sub = "s1"
          /\ cyc[r].proc.current = 31 /\ cyc[r].proc.target = 30
          /\ cyc[r].proc.marks = ThresholdSet
    /\ \A t \in ThresholdSet :
          subs["s1"].notified[t] /\ dispatched["s1"][t] = 0

\* C27 (SpecNotify): when there is no snapshot for the subscription, or the
\* latest one has no current number, processing the subscription sends
\* nothing, writes no log entry and changes no notified flag.
C27_NoProgressNoEffect ==
    [][\A r \in Runs :
         (/\ cyc'[r].proc # cyc[r].proc
          /\ cyc'[r].proc.sub # ""
          /\ cyc'[r].proc.current = None) =>
            /\ cyc'[r].pc = "loop"
            /\ cyc'[r].idx = cyc[r].idx + 1
            /\ subs' = subs
            /\ logs' = logs
            /\ dispatched' = dispatched]_vars

\* s1 was processed without a current number, s2 is next, and nothing has
\* been sent, logged or flagged.
C27_SkippedWithoutProgress ==
    /\ cyc # <<>>
    /\ \E r \in Runs :
          /\ cyc[r].pc = "loop" /\ cyc[r].idx = 2
          /\ cyc[r].proc.sub = "s1" /\ cyc[r].proc.current = None
    /\ logs = {}
    /\ \A s \in SubSet, t \in ThresholdSet :
          ~subs[s].notified[t] /\ dispatched[s][t] = 0

\* C29 (SpecNotify): the only change made to a subscription is one of its
\* notified flags going from false to true: no flag is cleared, the
\* threshold, channel and active settings stay as they are and no
\* subscription disappears.
C29_OnlyNotifiedFlagsRise ==
    [][/\ cfg' = cfg
       /\ DOMAIN subs' = DOMAIN subs
       /\ \A s \in DOMAIN subs :
             /\ DOMAIN subs'[s] = DOMAIN subs[s]
             /\ \A t \in ThresholdSet :
                   subs[s].notified[t] => subs'[s].notified[t]]_vars

\* Two flags of s1 were set by two dispatches, the first one still set.
C29_SecondFlagSetFirstKept ==
    /\ subs # <<>>
    /\ subs["s1"].notified[20] /\ subs["s1"].notified[10]
    /\ dispatched["s1"][20] > 0 /\ dispatched["s1"][10] > 0

C30_OnlyActiveTargetsScraped ==
    (calc # <<>> /\ calc.done) =>
        LET active == {i \in 1..Len(calc.table) : calc.table[i].is_active}
        IN  /\ \A doc \in calc.out.doctors :
                  \E i \in active : calc.table[i].doctor_id = doc
            /\ \A dep \in calc.out.depts :
                  \E i \in active :
                     \/ calc.table[i].department_id = dep
                     \/ /\ calc.table[i].doctor_id # ""
                        /\ department_of(calc.table[i].doctor_id) = dep

\* C31 (SpecSupplement): in a tracked-scan cycle every tracked doctor that
\* no department-level schedule fetch returned is fetched individually, and
\* the slots found for the doctor are in the batch that is written.  The
\* code does not keep this for the HMMH worker: HMMHScraper has no
\* _fetch_doctor_slots, so the supplement's call raises and no tracked
\* doctor of the worker is fetched.
C31_MissingDoctorsFetched ==
    (calc # <<>> /\ calc.pc = "done" /\ ~calc.failed
                /\ calc.targets.depts # {})
        => \A doc \in calc.targets.doctors \ calc.scraped :
              /\ doc \in calc.fetched
              /\ Request("detail", doc) \in calc.requests

\* C39 (SpecSupplement): a hospital's worker issues schedule, doctor-detail
\* and progress requests only for departments and doctors of its own
\* hospital.  The code does not keep this: the supplement's doctors query
\* has no hospital filter, so a worker fetches the tracked doctors of the
\* other hospitals with its own adapter.
C39_RequestsForOwnHospitalOnly ==
    calc # <<>> =>
        \A r \in calc.requests : hospital_of_target(r.target) = calc.h

C34_OneSlotPerDateRightYear ==
    (calc # <<>> /\ calc.done) =>
        /\ Len(calc.out) = Len(calc.cell)
        /\ \A i \in DOMAIN calc.cell :
              LET b == calc.cell[i]
                  slot == calc.out[i]
              IN  /\ slot.registered = b.registered
                  /\ \/ slot.clinic_room = None
                     \/ \E k \in DOMAIN b.rooms :
                           b.rooms[k].number = slot.clinic_room
                  /\ slot.session_date.day = b.date.day
                  /\ slot.session_date.year =
                        IF b.date.calendar = "ROC" THEN b.date.year + 1911
                        ELSE b.date.year

\* C35 (SpecCell): when a date block holds several parenthesized room
\* numbers the slot's room is the longest number, whatever the order.  The
\* code does not keep this: it takes the first parenthesized number that
\* carries the room suffix.
C35_LongestRoomChosen ==
    (calc # <<>> /\ calc.done) =>
        \A i \in DOMAIN calc.cell :
            LET rooms == calc.cell[i].rooms IN
            Len(rooms) > 1 =>
                /\ calc.out[i].clinic_room # None
                /\ \A k \in DOMAIN rooms :
                      rooms[k].number <= calc.out[i].clinic_room

\* C36 (SpecNear): a subscription with all three thresholds enabled and
\* unnotified and a usable channel, which stays at or before its target with
\* at most five ahead over consecutive cycles, dispatches the 20 alert in
\* the first cycle, the 10 alert in the second, the 5 alert in the third
\* and nothing in a later cycle: the cycle that finds k flags set finds
\* them on the first k thresholds and dispatches the next threshold alone,
\* whose flag is set when the cycle leaves the subscription; with the three
\* flags set nothing is dispatched.
C36_ThresholdsInTurn ==
    [][\A s \in SubSet :
         (/\ cfg.subs[s].notify_at = AllOn
          /\ send_channels(cfg.subs[s]) # {}
          /\ cyc[0].pc = "loop"
          /\ cyc[0].idx <= Len(cyc[0].list)
          /\ cyc[0].list[cyc[0].idx] = s
          /\ cyc'[0] # cyc[0])
         => LET k == Cardinality({t \in ThresholdSet : subs[s].notified[t]})
            IN  /\ \A i \in 1..Len(thresholds) :
                      subs[s].notified[thresholds[i]] <=> i <= k
                /\ subs[s].notified = cyc[0].read[s]
                /\ IF k < Len(thresholds)
                   THEN /\ cyc'[0].pc = "alert"
                        /\ cyc'[0].thr = thresholds[k + 1]
                        /\ dispatched' =
                              [dispatched EXCEPT ![s][thresholds[k + 1]] = 1]
                        /\ dispatched[s][thresholds[k + 1]] = 0
                   ELSE /\ cyc'[0].pc = "loop"
                        /\ dispatched' = dispatched]_vars
    /\ [][\A s \in SubSet :
            (cyc[0].pc = "alert" /\ cyc[0].proc.sub = s /\ cyc'[0].pc = "loop")
            => /\ subs'[s].notified[cyc[0].thr]
               /\ \A t \in ThresholdSet \ {cyc[0].thr} :
                     subs'[s].notified[t] = subs[s].notified[t]]_vars

\* A fourth cycle has passed the subscription without a dispatch: each of
\* the three alerts went out once.
C36_FourthCycleSilent ==
    /\ cfg # <<>>
    /\ cfg.subs["s1"].notify_at = AllOn
    /\ send_channels(cfg.subs["s1"]) # {}
    /\ \A t \in ThresholdSet :
          dispatched["s1"][t] = 1 /\ subs["s1"].notified[t]
    /\ cyc[0].pc = "loop" /\ cyc[0].idx = 2
    /\ cyc[0].read["s1"] = AllOn

\* C37 (SpecLatest): the snapshot evaluated for a subscription is a snapshot
\* of the subscription's own slot: same doctor, same session date, same
\* session type and, when the subscription names a department, that
\* department.  The code does not keep this: the query does not look at the
\* department, and a subscription may name a department other than the one
\* its doctor's snapshots are written under.
C37_SnapshotOfOwnSlot ==
    (calc # <<>> /\ calc.done /\ calc.out # NoSnapshot) =>
        /\ calc.out.doctor_id = calc.sub.doctor_id
        /\ calc.out.session_date = calc.sub.session_date
        /\ calc.sub.session_type # ""
              => calc.out.session_type = calc.sub.session_type
        /\ calc.sub.department_id # ""
              => calc.out.department_id = calc.sub.department_id

\* C38 (SpecGate): for every slot passed to it _build_snapshot_row returns
\* a row with the slot's schedule fields (the headcount and the status as
\* the slot has them unless the live fetch supplied them, the full flag),
\* whether the live fetch is not due, succeeds, returns nothing or raises.
\* The code does not keep this: for a tracked slot of today the aware clock
\* of now_tw() is compared with the naive session start, the comparison
\* raises, and the function's outer except returns None.
C38_RowForEverySlot ==
    call.made =>
        /\ call.res.returned
        /\ call.res.row.key.session_date = call.slot.session_date
        /\ call.res.row.is_full = call.slot.is_full
        /\ call.res.row.current_registered
              \in {call.slot.registered, call.fetch.p.registered_count}
        /\ call.res.row.status \in {call.slot.status, call.fetch.p.status}

====
